---- MODULE Spec2Model ----
(***************************************************************************)
(* gha-guard: the workflow parser (src/parser/workflow_parser.py) and the  *)
(* rule engine (src/rules/engine.py) as state machines.                    *)
(*                                                                         *)
(* A Python str is a sequence of one-character strings, so that the        *)
(* character-level operations of the code (rsplit, split, startswith,      *)
(* lower, "in") are computed and not assumed.  Every Python value is a     *)
(* record tagged by its type in field t.                                   *)
(***************************************************************************)
EXTENDS Naturals, Sequences, FiniteSets, TLC

VARIABLES
    fn,         \* the parser function last called ("idle" before the call)
    arg,        \* its argument
    ret,        \* what it returned or raised
    fs,         \* the file system: path -> directory entry
    _rules,     \* engine.py: the module-level rule registry
    pc,         \* position of the importing / evaluating program
    workflow,   \* run_all_rules: the workflow under evaluation
    idx,        \* run_all_rules: index of the next rule of the for loop
    findings,   \* run_all_rules: the local findings list
    calls,      \* the rules invoked by the current run_all_rules call, in order
    history,    \* the completed run_all_rules calls: workflow and outcome
    cli,        \* cli.py: the scan command, its arguments, locals and exit code
    threads     \* concurrent run_all_rules calls: each call's locals

parserVars == <<fn, arg, ret, fs>>
engineVars == <<_rules, pc, workflow, idx, findings, calls, history>>
vars == <<fn, arg, ret, fs, _rules, pc, workflow, idx, findings, calls, history, cli, threads>>

----------------------------------------------------------------------------
(* String literals of the source, as character sequences.                  *)

s_slash == <<"/">>
s_at == <<"@">>
s_docker == <<"d","o","c","k","e","r",":","/","/">>
s_local == <<".","/">>
s_hexdigits == <<"0","1","2","3","4","5","6","7","8","9","a","b","c","d","e","f">>
s_line == <<"_","_","l","i","n","e","_","_">>
s_all == <<"_","a","l","l">>
s_on == <<"o","n">>
s_jobs == <<"j","o","b","s">>
s_steps == <<"s","t","e","p","s">>
s_uses == <<"u","s","e","s">>
s_run == <<"r","u","n">>
s_name == <<"n","a","m","e">>
s_permissions == <<"p","e","r","m","i","s","s","i","o","n","s">>
s_env == <<"e","n","v">>
s_with == <<"w","i","t","h">>
s_runs_on == <<"r","u","n","s","-","o","n">>
s_push == <<"p","u","s","h">>
s_pull_request == <<"p","u","l","l","_","r","e","q","u","e","s","t">>
s_pull_request_target == <<"p","u","l","l","_","r","e","q","u","e","s","t","_","t","a","r","g","e","t">>
s_workflow_dispatch == <<"w","o","r","k","f","l","o","w","_","d","i","s","p","a","t","c","h">>
s_write_all == <<"w","r","i","t","e","-","a","l","l">>
s_read_all == <<"r","e","a","d","-","a","l","l">>
s_contents == <<"c","o","n","t","e","n","t","s">>
s_read == <<"r","e","a","d">>
s_build == <<"b","u","i","l","d">>
s_test == <<"t","e","s","t">>

----------------------------------------------------------------------------
(* Python values.                                                          *)

PyNone == [t |-> "None"]
PyStr(s) == [t |-> "str", s |-> s]
PyBool(b) == [t |-> "bool", b |-> b]
PyInt(n) == [t |-> "int", n |-> n]
PyList(xs) == [t |-> "list", items |-> xs]
PyDict(kv) == [t |-> "dict", kv |-> kv]      \* kv: <<[k |-> key, v |-> value], ...>> in insertion order
Raise(exc) == [t |-> "raise", exc |-> exc]

KV(k, v) == [k |-> k, v |-> v]

\* bool(v): the truth value of a Python value
Truthy(v) ==
    CASE v.t = "None" -> FALSE
      [] v.t = "str"  -> Len(v.s) > 0
      [] v.t = "bool" -> v.b
      [] v.t = "int"  -> v.n # 0
      [] v.t = "list" -> Len(v.items) > 0
      [] v.t = "dict" -> Len(v.kv) > 0
      [] OTHER        -> TRUE

\* sub in s, for two str
IsSubstring(sub, s) ==
    \E i \in 1..(Len(s) + 1) :
        /\ i + Len(sub) - 1 <= Len(s)
        /\ SubSeq(s, i, i + Len(sub) - 1) = sub

\* s.startswith(prefix)
StartsWith(s, prefix) ==
    /\ Len(s) >= Len(prefix)
    /\ SubSeq(s, 1, Len(prefix)) = prefix

\* dict.keys() as a tuple
DictKeys(d) == [i \in 1..Len(d.kv) |-> d.kv[i].k]

HasKey(d, k) == \E i \in 1..Len(d.kv) : d.kv[i].k = k

\* dict.get(k, default)
DictGet(d, k, default) ==
    IF HasKey(d, k)
    THEN d.kv[CHOOSE i \in 1..Len(d.kv) : d.kv[i].k = k].v
    ELSE default

\* x in v: a raise record where Python raises TypeError
PyIn(x, v) ==
    CASE v.t = "str"  -> IF x.t = "str" THEN PyBool(IsSubstring(x.s, v.s)) ELSE Raise("TypeError")
      [] v.t = "list" -> PyBool(\E i \in 1..Len(v.items) : v.items[i] = x)
      [] v.t = "dict" -> PyBool(HasKey(v, x))
      [] OTHER        -> Raise("TypeError")

\* str.lower(), on the characters the model uses
LowerChar(c) ==
    CASE c = "A" -> "a" [] c = "B" -> "b" [] c = "C" -> "c" [] c = "D" -> "d"
      [] c = "E" -> "e" [] c = "F" -> "f" [] c = "G" -> "g" [] c = "Z" -> "z"
      [] OTHER -> c

lower(s) == [i \in 1..Len(s) |-> LowerChar(s[i])]

\* the split at the first occurrence
split1_first(s, sep) ==
    LET i == CHOOSE k \in 1..Len(s) :
                 s[k] = sep /\ \A j \in 1..(k - 1) : s[j] # sep
    IN  <<SubSeq(s, 1, i - 1), SubSeq(s, i + 1, Len(s))>>

\* s.rsplit(sep, 1) for a one-character sep that occurs in s
rsplit1(s, sep) ==
    LET i == CHOOSE k \in 1..Len(s) :
                 s[k] = sep /\ \A j \in (k + 1)..Len(s) : s[j] # sep
    IN  <<SubSeq(s, 1, i - 1), SubSeq(s, i + 1, Len(s))>>

\* s.split(sep) for a one-character sep
RECURSIVE split(_, _)
split(s, sep) ==
    IF \A k \in 1..Len(s) : s[k] # sep
    THEN <<s>>
    ELSE LET i == CHOOSE k \in 1..Len(s) :
                      s[k] = sep /\ \A j \in 1..(k - 1) : s[j] # sep
         IN  <<SubSeq(s, 1, i - 1)>> \o split(SubSeq(s, i + 1, Len(s)), sep)

----------------------------------------------------------------------------
(* workflow_parser.py: _parse_action_ref                                   *)

ShaLen == 40

\* a plausible slip: the revision is not lower-cased before the hex test
is_pinned_case_sensitive(ref) ==
    /\ Len(ref) = ShaLen
    /\ \A i \in 1..Len(ref) : IsSubstring(<<ref[i]>>, s_hexdigits)

\* line 108: len(ref) == 40 and all(c in "0123456789abcdef" for c in ref.lower())
is_pinned(ref) ==
    /\ Len(ref) = ShaLen
    /\ \A i \in 1..Len(lower(ref)) : IsSubstring(<<lower(ref)[i]>>, s_hexdigits)

ActionRef(full_ref, owner, repo, ref, pinned) ==
    [t |-> "ActionRef", full_ref |-> full_ref, owner |-> owner, repo |-> repo,
     ref |-> ref, is_pinned |-> pinned]

\* lines 99-117, for a str that holds "/" and "@" and no excluded prefix
split_action_ref(s) ==
    LET pr == rsplit1(s, "@")
        parts == split(pr[1], "/")
    IN  IF Len(parts) < 2
        THEN PyNone
        ELSE ActionRef(s, parts[1], parts[2], pr[2], is_pinned(pr[2]))

\* a plausible slip: the local-path prefix "./" is not excluded
parse_action_ref_no_local(u) ==
    IF ~Truthy(u) THEN PyNone
    ELSE IF u.t # "str" THEN Raise("TypeError")
    ELSE IF ~IsSubstring(s_slash, u.s) THEN PyNone
    ELSE IF StartsWith(u.s, s_docker) THEN PyNone
    ELSE IF ~IsSubstring(s_at, u.s) THEN PyNone
    ELSE split_action_ref(u.s)

\* _parse_action_ref(uses_string); the argument is whatever the YAML held
_parse_action_ref(u) ==
    IF ~Truthy(u) THEN PyNone
    ELSE LET hasSlash == PyIn(PyStr(s_slash), u)
         IN  IF hasSlash.t = "raise" THEN hasSlash
             ELSE IF ~hasSlash.b THEN PyNone
             ELSE IF u.t # "str" THEN Raise("AttributeError")   \* .startswith
             ELSE IF StartsWith(u.s, s_docker) \/ StartsWith(u.s, s_local) THEN PyNone
             ELSE IF ~IsSubstring(s_at, u.s) THEN PyNone
             ELSE split_action_ref(u.s)

----------------------------------------------------------------------------
(* Inputs of _parse_action_ref.                                            *)

LenSlack == 1

Rep(c, n) == [i \in 1..n |-> c]

RevChars == {"a", "f", "0", "9", "A", "F", "g", "G", "-"}

RevLens == (ShaLen - LenSlack)..(ShaLen + LenSlack)

Revisions ==
    {Rep(c, n) : c \in RevChars, n \in RevLens}
    \cup {Rep("a", ShaLen - 1) \o <<c>> : c \in RevChars}
    \cup {<<c>> \o Rep("F", ShaLen - 1) : c \in RevChars}
    \cup {<<>>, <<"v","3">>, <<"m","a","i","n">>, <<"v","/","1">>}

ActionPaths ==
    {<<>>, <<"a">>, <<"a","/","b">>, <<"a","/","b","/","c">>, <<"/">>,
     <<".","/","a">>, <<".","a","/","b">>,
     <<"d","o","c","k","e","r",":","/","/","a">>,
     <<"d","o","c","k","e","r","/","a">>,
     <<"a","@","x","/","b">>, <<"a","/","b","@","x">>}

RefInputs ==
    ActionPaths \cup {p \o s_at \o r : p \in ActionPaths, r \in Revisions}

----------------------------------------------------------------------------
(* workflow_parser.py: the normalizer                                      *)

\* the first exception of a comprehension's results, PyNone when none raised
FirstRaise(xs) ==
    IF \E i \in 1..Len(xs) : xs[i].t = "raise"
    THEN xs[CHOOSE i \in 1..Len(xs) :
                xs[i].t = "raise" /\ \A j \in 1..(i - 1) : xs[j].t # "raise"]
    ELSE PyNone

\* v.get(...): only a dict has .get
HasGet(v) == v.t = "dict"

\* str(v), for the scalars a 'runs-on' value holds in the model
py_str(v) ==
    CASE v.t = "str"  -> v
      [] v.t = "None" -> PyStr(<<"N","o","n","e">>)
      [] v.t = "bool" -> IF v.b THEN PyStr(<<"T","r","u","e">>)
                                ELSE PyStr(<<"F","a","l","s","e">>)

Step(name, uses, run, env, with_args, raw, line_number) ==
    [t |-> "Step", name |-> name, uses |-> uses, run |-> run, env |-> env,
     with_args |-> with_args, raw |-> raw, line_number |-> line_number]

\* _parse_step(step_raw), step_raw a dict
_parse_step(step_raw) ==
    LET uses_str == DictGet(step_raw, PyStr(s_uses), PyNone)
        uses == IF Truthy(uses_str) THEN _parse_action_ref(uses_str) ELSE PyNone
    IN  IF uses.t = "raise" THEN uses
        ELSE Step(DictGet(step_raw, PyStr(s_name), PyNone),
                  uses,
                  DictGet(step_raw, PyStr(s_run), PyNone),
                  DictGet(step_raw, PyStr(s_env), PyDict(<<>>)),
                  DictGet(step_raw, PyStr(s_with), PyDict(<<>>)),
                  step_raw,
                  DictGet(step_raw, PyStr(s_line), PyNone))

\* a plausible slip: every str becomes [] like the unexpected types
parse_triggers_str_dropped(on_field) ==
    IF on_field.t = "list" THEN on_field
    ELSE IF on_field.t = "dict" THEN PyList(DictKeys(on_field))
    ELSE PyList(<<>>)

\* _parse_triggers(on_field)
_parse_triggers(on_field) ==
    IF on_field.t = "str" THEN PyList(<<on_field>>)
    ELSE IF on_field.t = "list" THEN on_field
    ELSE IF on_field.t = "dict" THEN PyList(DictKeys(on_field))
    ELSE PyList(<<>>)

\* a plausible slip: the bare string is returned as it is, not wrapped
parse_permissions_unwrapped(perm_field) ==
    IF perm_field.t = "None" THEN PyNone
    ELSE IF perm_field.t = "str" THEN perm_field
    ELSE IF perm_field.t = "dict" THEN perm_field
    ELSE PyNone

\* _parse_permissions(perm_field)
_parse_permissions(perm_field) ==
    IF perm_field.t = "None" THEN PyNone
    ELSE IF perm_field.t = "str" THEN PyDict(<<KV(PyStr(s_all), perm_field)>>)
    ELSE IF perm_field.t = "dict" THEN perm_field
    ELSE PyNone

SelectDicts(xs) == SelectSeq(xs, LAMBDA s : s.t = "dict")

\* an element that is no mapping fails the job
steps_raw_strict(job_raw) ==
    LET sv == DictGet(job_raw, PyStr(s_steps), PyList(<<>>))
    IN  IF sv.t = "list" /\ SelectDicts(sv.items) = sv.items THEN sv ELSE Raise("TypeError")

\* line 159: [s for s in job_raw.get("steps", []) if isinstance(s, dict)]
steps_raw_of(job_raw) ==
    LET sv == DictGet(job_raw, PyStr(s_steps), PyList(<<>>))
    IN  CASE sv.t = "list" -> PyList(SelectDicts(sv.items))
          [] sv.t = "str"  -> PyList(<<>>)     \* iterates characters, none a dict
          [] sv.t = "dict" -> PyList(<<>>)     \* iterates keys, none a dict
          [] OTHER         -> Raise("TypeError")   \* None, int, bool: not iterable

Job(job_id, name, runs_on, permissions, steps, env, raw, line_number) ==
    [t |-> "Job", job_id |-> job_id, name |-> name, runs_on |-> runs_on,
     permissions |-> permissions, steps |-> steps, env |-> env, raw |-> raw,
     line_number |-> line_number]

\* _parse_job(job_id, job_raw)
_parse_job(job_id, job_raw) ==
    IF ~HasGet(job_raw) THEN Raise("AttributeError")
    ELSE LET steps_raw == steps_raw_of(job_raw)
         IN  IF steps_raw.t = "raise" THEN steps_raw
             ELSE LET steps == [i \in 1..Len(steps_raw.items) |->
                                    _parse_step(steps_raw.items[i])]
                  IN  IF FirstRaise(steps).t = "raise" THEN FirstRaise(steps)
                      ELSE Job(job_id,
                               DictGet(job_raw, PyStr(s_name), PyNone),
                               py_str(DictGet(job_raw, PyStr(s_runs_on), PyStr(<<>>))),
                               _parse_permissions(DictGet(job_raw, PyStr(s_permissions), PyNone)),
                               steps,
                               DictGet(job_raw, PyStr(s_env), PyDict(<<>>)),
                               job_raw,
                               DictGet(job_raw, PyStr(s_line), PyNone))

Workflow(file_path, name, triggers, permissions, env, jobs, raw, line_number) ==
    [t |-> "Workflow", file_path |-> file_path, name |-> name, triggers |-> triggers,
     permissions |-> permissions, env |-> env, jobs |-> jobs, raw |-> raw,
     line_number |-> line_number]

\* the items the other way round
job_items_reversed(jobs_raw) ==
    LET items == SelectSeq(jobs_raw.kv, LAMBDA e : e.k # PyStr(s_line))
    IN  [i \in 1..Len(items) |-> items[Len(items) + 1 - i]]

\* lines 201-205: the items of jobs_raw whose key is not "__line__"
job_items(jobs_raw) == SelectSeq(jobs_raw.kv, LAMBDA e : e.k # PyStr(s_line))

\* parse_workflow lines 196-223: the loaded root to a Workflow
normalize(raw, file_path) ==
    IF raw.t # "dict" THEN Raise("ValueError")
    ELSE LET jobs_raw == DictGet(raw, PyStr(s_jobs), PyDict(<<>>))
         IN  IF jobs_raw.t # "dict" THEN Raise("AttributeError")   \* .items()
             ELSE LET items == job_items(jobs_raw)
                      jobs == [i \in 1..Len(items) |-> _parse_job(items[i].k, items[i].v)]
                  IN  IF FirstRaise(jobs).t = "raise" THEN FirstRaise(jobs)
                      ELSE Workflow(
                               file_path,
                               DictGet(raw, PyStr(s_name), PyNone),
                               _parse_triggers(DictGet(raw, PyStr(s_on),
                                                   DictGet(raw, PyBool(TRUE), PyList(<<>>)))),
                               _parse_permissions(DictGet(raw, PyStr(s_permissions), PyNone)),
                               DictGet(raw, PyStr(s_env), PyDict(<<>>)),
                               jobs,
                               raw,
                               DictGet(raw, PyStr(s_line), PyNone))

----------------------------------------------------------------------------
(* The loader: yaml.load(f, Loader=_LineLoader).  A file's text is either  *)
(* not YAML or the document it denotes; a mapping of the document carries  *)
(* the line it starts on.                                                  *)

Unparseable == [t |-> "unparseable"]
YMap(line, kv) == [t |-> "ymap", line |-> line, kv |-> kv]
YSeq(items) == [t |-> "yseq", items |-> items]

\* mapping[k] = v on an insertion-ordered dict
DictSet(kv, k, v) ==
    IF \E i \in 1..Len(kv) : kv[i].k = k
    THEN [i \in 1..Len(kv) |-> IF kv[i].k = k THEN KV(k, v) ELSE kv[i]]
    ELSE Append(kv, KV(k, v))

\* _construct_mapping on every mapping node (deep=True), other nodes as SafeLoader builds them
RECURSIVE construct(_)
construct(y) ==
    CASE y.t = "ymap" ->
             PyDict(DictSet([i \in 1..Len(y.kv) |-> KV(y.kv[i].k, construct(y.kv[i].v))],
                            PyStr(s_line), PyInt(y.line)))
      [] y.t = "yseq" -> PyList([i \in 1..Len(y.items) |-> construct(y.items[i])])
      [] OTHER -> y

\* yaml.load of a file's text
yaml_load(content) ==
    IF content.t = "unparseable" THEN Raise("YAMLError") ELSE construct(content)

----------------------------------------------------------------------------
(* The file system and the two entry points of the parser.                 *)

Dir == [kind |-> "dir"]
File(content) == [kind |-> "file", content |-> content]

\* str(path) of a path given by its parts
RECURSIVE path_str(_)
path_str(p) ==
    IF Len(p) = 0 THEN <<>>
    ELSE IF Len(p) = 1 THEN p[1]
    ELSE p[1] \o s_slash \o path_str(Tail(p))

\* parse_workflow(file_path), for a path that is missing or a regular file
parse_workflow(fsys, path) ==
    IF path \notin DOMAIN fsys THEN Raise("FileNotFoundError")
    ELSE LET raw == yaml_load(fsys[path].content)
         IN  IF raw.t = "raise" THEN raw
             ELSE normalize(raw, PyStr(path_str(path)))

\* pathlib: PurePath.suffix of a file name
suffix(name) ==
    IF \E i \in 2..(Len(name) - 1) : name[i] = "."
    THEN LET i == CHOOSE k \in 2..(Len(name) - 1) :
                      name[k] = "." /\ \A j \in (k + 1)..Len(name) : name[j] # "."
         IN  IF name[Len(name)] = "." THEN <<>> ELSE SubSeq(name, i, Len(name))
    ELSE <<>>

s_yml == <<".","y","m","l">>
s_yaml == <<".","y","a","m","l">>

\* ord(c) of the characters of the file names
Ord(c) ==
    CASE c = "." -> 46 [] c = "B" -> 66 [] c = "a" -> 97 [] c = "b" -> 98
      [] c = "c" -> 99 [] c = "l" -> 108 [] c = "m" -> 109 [] c = "t" -> 116
      [] c = "x" -> 120 [] c = "y" -> 121

\* a < b for two str
RECURSIVE str_lt(_, _)
str_lt(a, b) ==
    IF Len(b) = 0 THEN FALSE
    ELSE IF Len(a) = 0 THEN TRUE
    ELSE IF a[1] = b[1] THEN str_lt(Tail(a), Tail(b))
    ELSE Ord(a[1]) < Ord(b[1])

\* sorted(paths) for paths of one directory: by file name
RECURSIVE sorted(_)
sorted(ps) ==
    IF ps = {} THEN <<>>
    ELSE LET m == CHOOSE p \in ps :
                      \A q \in ps \ {p} : str_lt(p[Len(p)], q[Len(q)])
         IN  <<m>> \o sorted(ps \ {m})

iterdir(fsys, d) ==
    {p \in DOMAIN fsys : Len(p) = Len(d) + 1 /\ SubSeq(p, 1, Len(d)) = d}

\* line 241
yaml_files(fsys, d) ==
    sorted({f \in iterdir(fsys, d) : suffix(f[Len(f)]) \in {s_yml, s_yaml}})

\* lines 244-250: the loop over yaml_files with its try/except
RECURSIVE parse_each(_, _, _)
parse_each(fsys, files, workflows) ==
    IF Len(files) = 0 THEN PyList(workflows)
    ELSE LET r == parse_workflow(fsys, files[1])
         IN  IF r.t = "raise"
             THEN IF r.exc \in {"ValueError", "YAMLError"}
                  THEN parse_each(fsys, Tail(files), workflows)
                  ELSE r
             ELSE parse_each(fsys, Tail(files), Append(workflows, r))

\* parse_workflows_dir(dir_path)
parse_workflows_dir(fsys, d) ==
    IF ~(d \in DOMAIN fsys /\ fsys[d].kind = "dir") THEN Raise("NotADirectoryError")
    ELSE parse_each(fsys, yaml_files(fsys, d), <<>>)

----------------------------------------------------------------------------
(* Workflow documents the model reads.                                     *)

MaxSteps == 2
MaxJobs == 2

SeqsUpTo(S, n) == UNION {[1..k -> S] : k \in 0..n}

s_ref_unpinned == <<"a","/","b","@","v","3">>
s_ref_pinned == <<"a","/","b","@">> \o Rep("A", ShaLen)
s_echo == <<"e","c","h","o">>
s_junk == <<"j","u","n","k">>
s_run_inject == <<"e","c","h","o"," ","$","{","{"," ","g","i","t","h","u","b",".","h","e","a","d","_","r","e","f"," ","}","}">>
s_run_secret == <<"c","u","r","l"," ","$","{","{"," ","s","e","c","r","e","t","s",".","T","O","K","E","N"," ","}","}">>
s_run_sha == <<"e","c","h","o"," ","$","{","{"," ","g","i","t","h","u","b",".","s","h","a"," ","}","}">>
s_run_multi == <<"$","{","{"," ","g","i","t","h","u","b",".","h","e","a","d","_","r","e","f"," ","}","}"," ","$","{","{"," ","g","i","t","h","u","b",".","s","h","a"," ","}","}"," ","$","{","{"," ","g","i","t","h","u","b",".","e","v","e","n","t",".","i","s","s","u","e",".","t","i","t","l","e"," ","}","}">>
s_run_twoctx == <<"$","{","{"," ","g","i","t","h","u","b",".","h","e","a","d","_","r","e","f"," ","|","|"," ","g","i","t","h","u","b",".","e","v","e","n","t",".","i","s","s","u","e",".","b","o","d","y"," ","}","}">>
s_run_secret2 == <<"e","c","h","o"," ","$","{","{"," ","s","e","c","r","e","t","s",".","A"," ","}","}"," ","$","{","{","s","e","c","r","e","t","s",".","B","}","}">>
s_secret_expr == <<"$","{","{"," ","s","e","c","r","e","t","s",".","T","O","K","E","N"," ","}","}">>
s_token == <<"T">>
s_co == <<"c","o">>

StepKinds == {"unpinned", "named", "pinned", "run", "junk", "intuses", "null"}

\* one element of a 'steps' list
YStep(kind, line) ==
    CASE kind = "unpinned" -> YMap(line, <<KV(PyStr(s_uses), PyStr(s_ref_unpinned))>>)
      [] kind = "named"    -> YMap(line, <<KV(PyStr(s_name), PyStr(s_co)),
                                            KV(PyStr(s_uses), PyStr(s_ref_unpinned))>>)
      [] kind = "pinned"   -> YMap(line, <<KV(PyStr(s_uses), PyStr(s_ref_pinned))>>)
      [] kind = "run"      -> YMap(line, <<KV(PyStr(s_run), PyStr(s_echo))>>)
      [] kind = "junk"     -> PyStr(s_junk)
      [] kind = "intuses"  -> YMap(line, <<KV(PyStr(s_uses), PyInt(5))>>)
      [] kind = "null"     -> PyNone
      [] kind = "inject"   -> YMap(line, <<KV(PyStr(s_run), PyStr(s_run_inject))>>)
      [] kind = "secret"   -> YMap(line, <<KV(PyStr(s_run), PyStr(s_run_secret))>>)
      [] kind = "sha"      -> YMap(line, <<KV(PyStr(s_name), PyStr(s_co)),
                                            KV(PyStr(s_run), PyStr(s_run_sha))>>)
      [] kind = "intrun"   -> YMap(line, <<KV(PyStr(s_run), PyInt(5))>>)
      [] kind = "multi"    -> YMap(line, <<KV(PyStr(s_run), PyStr(s_run_multi))>>)
      [] kind = "twoctx"   -> YMap(line, <<KV(PyStr(s_run), PyStr(s_run_twoctx))>>)
      [] kind = "secret2"  -> YMap(line, <<KV(PyStr(s_run), PyStr(s_run_secret2))>>)
      [] kind = "envsecret" ->
             YMap(line, <<KV(PyStr(s_run), PyStr(s_echo)),
                          KV(PyStr(s_env), YMap(line + 1, <<KV(PyStr(s_token), PyStr(s_secret_expr))>>))>>)

StepsOpts ==
    {[k |-> "list", kinds |-> ks] : ks \in SeqsUpTo(StepKinds, MaxSteps)}
    \cup {[k |-> x, kinds |-> <<>>] : x \in {"absent", "null", "str", "map"}}

\* the value of a 'steps' key
YSteps(so, line) ==
    CASE so.k = "list" -> YSeq([i \in 1..Len(so.kinds) |-> YStep(so.kinds[i], line + i)])
      [] so.k = "null" -> PyNone
      [] so.k = "str"  -> PyStr(s_junk)
      [] so.k = "map"  -> YMap(line + 1, <<KV(PyStr(s_run), PyStr(s_echo))>>)

PermOpts == {"absent", "null", "write-all", "read-all", "scoped", "list"}

\* the entries a 'permissions' key adds to a mapping
YPerm(po, line) ==
    CASE po = "absent"    -> <<>>
      [] po = "null"      -> <<KV(PyStr(s_permissions), PyNone)>>
      [] po = "write-all" -> <<KV(PyStr(s_permissions), PyStr(s_write_all))>>
      [] po = "read-all"  -> <<KV(PyStr(s_permissions), PyStr(s_read_all))>>
      [] po = "scoped"    -> <<KV(PyStr(s_permissions),
                                  YMap(line, <<KV(PyStr(s_contents), PyStr(s_read))>>))>>
      [] po = "list"      -> <<KV(PyStr(s_permissions), YSeq(<<PyStr(s_read)>>))>>
      [] po = "allmap"    -> <<KV(PyStr(s_permissions),
                                  YMap(line, <<KV(PyStr(s_all), PyStr(s_write_all)),
                                               KV(PyStr(s_contents), PyStr(s_read))>>))>>

JobOpts ==
    {[k |-> "map", steps |-> so, perm |-> "absent"] : so \in StepsOpts}
    \cup {[k |-> "map", steps |-> [k |-> "list", kinds |-> <<"pinned">>], perm |-> po] :
              po \in {"write-all", "scoped"}}
    \cup {[k |-> x, steps |-> [k |-> "absent", kinds |-> <<>>], perm |-> "absent"] :
              x \in {"str", "null"}}

LaterJobOpts ==
    {[k |-> "map", steps |-> [k |-> "list", kinds |-> <<"pinned">>], perm |-> "absent"],
     [k |-> "map", steps |-> [k |-> "absent", kinds |-> <<>>], perm |-> "write-all"],
     [k |-> "str", steps |-> [k |-> "absent", kinds |-> <<>>], perm |-> "absent"]}

\* the value of one job key
YJob(jo, line) ==
    CASE jo.k = "map" ->
             YMap(line, YPerm(jo.perm, line + 1)
                        \o (IF jo.steps.k = "absent" THEN <<>>
                            ELSE <<KV(PyStr(s_steps), YSteps(jo.steps, line + 1))>>))
      [] jo.k = "str"  -> PyStr(s_junk)
      [] jo.k = "null" -> PyNone

JobIds == <<s_build, s_test, s_co>>

JobsOpts ==
    {[k |-> "map", jobs |-> <<j>> \o later] :
         j \in JobOpts, later \in SeqsUpTo(LaterJobOpts, MaxJobs - 1)}
    \cup {[k |-> "map", jobs |-> <<>>]}
    \cup {[k |-> x, jobs |-> <<>>] : x \in {"absent", "null", "seq", "str"}}

\* the entries a 'jobs' key adds to the root mapping
YJobs(jso) ==
    CASE jso.k = "absent" -> <<>>
      [] jso.k = "null"   -> <<KV(PyStr(s_jobs), PyNone)>>
      [] jso.k = "seq"    -> <<KV(PyStr(s_jobs), YSeq(<<>>))>>
      [] jso.k = "str"    -> <<KV(PyStr(s_jobs), PyStr(s_junk))>>
      [] jso.k = "map"    ->
             <<KV(PyStr(s_jobs),
                  YMap(10, [i \in 1..Len(jso.jobs) |->
                                KV(PyStr(JobIds[i]), YJob(jso.jobs[i], 10 * i + 10))]))>>

OnOpts == {"absent", "str", "quoted", "list", "dups", "map", "null", "int"}

\* the entries an 'on' key adds to the root mapping; YAML 1.1 reads a plain
\* on as the boolean true, a quoted "on" as the string
YOn(oo) ==
    CASE oo = "absent" -> <<>>
      [] oo = "str"    -> <<KV(PyBool(TRUE), PyStr(s_push))>>
      [] oo = "quoted" -> <<KV(PyStr(s_on), PyStr(s_workflow_dispatch))>>
      [] oo = "list"   -> <<KV(PyBool(TRUE), YSeq(<<PyStr(s_push), PyStr(s_pull_request_target)>>))>>
      [] oo = "dups"   -> <<KV(PyBool(TRUE), YSeq(<<PyStr(s_workflow_dispatch), PyStr(s_push),
                                                     PyStr(s_workflow_dispatch)>>))>>
      [] oo = "map"    -> <<KV(PyBool(TRUE), YMap(2, <<KV(PyStr(s_pull_request_target), PyNone),
                                                        KV(PyStr(s_push), PyNone)>>))>>
      [] oo = "null"   -> <<KV(PyBool(TRUE), PyNone)>>
      [] oo = "int"    -> <<KV(PyStr(s_on), PyInt(5))>>
      [] oo = "pr"     -> <<KV(PyBool(TRUE), PyStr(s_pull_request))>>
      [] oo = "all"    -> <<KV(PyBool(TRUE), YSeq(<<PyStr(s_pull_request_target), PyStr(s_workflow_dispatch),
                                                     PyStr(s_pull_request_target), PyStr(s_pull_request)>>))>>

\* a workflow document whose root is a mapping
YDoc(oo, po, jso) ==
    YMap(1, <<KV(PyStr(s_name), PyStr(s_co))>> \o YOn(oo) \o YPerm(po, 3) \o YJobs(jso))

JobsFew ==
    {[k |-> "absent", jobs |-> <<>>],
     [k |-> "map", jobs |-> <<[k |-> "map", steps |-> [k |-> "list", kinds |-> <<"pinned", "run">>],
                               perm |-> "write-all"]>>]}

MappingDocs ==
    {YDoc(oo, po, jso) : oo \in OnOpts, po \in PermOpts, jso \in JobsFew}
    \cup {YDoc("list", "scoped", jso) : jso \in JobsOpts}

\* a document with environment variables in the workflow, a job and a step
EnvDoc ==
    YMap(1, <<KV(PyStr(s_name), PyStr(s_co)),
              KV(PyBool(TRUE), PyStr(s_push)),
              KV(PyStr(s_env), YMap(3, <<KV(PyStr(s_token), PyStr(s_echo))>>)),
              KV(PyStr(s_jobs),
                 YMap(10, <<KV(PyStr(s_build),
                               YMap(20, <<KV(PyStr(s_env), YMap(21, <<KV(PyStr(s_token), PyStr(s_echo))>>)),
                                          KV(PyStr(s_steps),
                                             YSeq(<<YMap(23, <<KV(PyStr(s_run), PyStr(s_echo)),
                                                               KV(PyStr(s_env),
                                                                  YMap(25, <<KV(PyStr(s_token), PyStr(s_echo))>>))>>)>>))>>))>>))>>)

\* documents whose root is no mapping: a scalar, a sequence, the empty document
OtherDocs == {PyStr(s_junk), PyInt(5), YSeq(<<PyStr(s_push)>>), PyNone}

----------------------------------------------------------------------------
(* File systems: one directory of workflow files.                          *)

n_wf == <<"w","f">>
n_a_yml == <<"a",".","y","m","l">>
n_B_yml == <<"B",".","y","m","l">>
n_b_yaml == <<"b",".","y","a","m","l">>
n_c_txt == <<"c",".","t","x","t">>
n_dot_yml == <<".","y","m","l">>

WfDir == <<n_wf>>

GoodDoc == YDoc("list", "write-all", [k |-> "absent", jobs |-> <<>>])
GoodDoc2 == YDoc("quoted", "absent", [k |-> "map", jobs |->
                <<[k |-> "map", steps |-> [k |-> "list", kinds |-> <<"pinned">>], perm |-> "absent"]>>])
SeqJobsDoc == YDoc("str", "scoped", [k |-> "seq", jobs |-> <<>>])

BatchContents == {Unparseable, PyStr(s_junk), PyNone, GoodDoc, GoodDoc2, SeqJobsDoc}

BatchNames == {n_a_yml, n_B_yml, n_b_yaml}

\* the directory with the files the function files places in it
DirWith(files) ==
    [p \in {WfDir} \cup {<<n_wf, n>> : n \in DOMAIN files} |->
        IF p = WfDir THEN Dir ELSE File(files[p[2]])]

\* every placement of the batch contents under the .yml/.yaml names, beside
\* files the scan must not pick up
BatchFileSystems ==
    {DirWith([n \in DOMAIN files \cup other |->
                 IF n \in other THEN GoodDoc ELSE files[n]]) :
        files \in UNION {[ns -> BatchContents] : ns \in SUBSET BatchNames},
        other \in {{}, {n_c_txt}, {n_dot_yml}}}

\* one file per document of the family
SingleFileSystems ==
    {DirWith([n \in {n_a_yml} |-> d]) : d \in MappingDocs \cup {EnvDoc} \cup OtherDocs \cup {Unparseable}}

\* the path given is a regular file, or does not exist
NoDirFileSystems ==
    {[p \in {WfDir} |-> File(GoodDoc)], [p \in {} |-> Dir]}

FileSystems == SingleFileSystems \cup BatchFileSystems \cup NoDirFileSystems

FilePaths == {<<n_wf, n>> : n \in BatchNames \cup {n_c_txt}}

TriggerInputs ==
    {PyNone, PyInt(5), PyBool(TRUE), PyStr(s_push), PyStr(<<>>),
     PyList(<<>>), PyList(<<PyStr(s_push), PyStr(s_pull_request)>>),
     PyList(<<PyStr(s_pull_request), PyStr(s_push), PyStr(s_pull_request)>>),
     PyList(<<PyInt(5)>>),
     PyDict(<<>>),
     PyDict(<<KV(PyStr(s_push), PyDict(<<>>)), KV(PyStr(s_pull_request), PyNone)>>),
     PyDict(<<KV(PyStr(s_pull_request), PyNone), KV(PyStr(s_push), PyNone),
              KV(PyStr(s_line), PyInt(2))>>)}

PermissionInputs ==
    {PyNone, PyInt(5), PyBool(FALSE), PyList(<<PyStr(s_read)>>),
     PyStr(s_write_all), PyStr(s_read_all), PyStr(s_junk), PyStr(<<>>),
     PyDict(<<>>),
     PyDict(<<KV(PyStr(s_contents), PyStr(s_read))>>),
     PyDict(<<KV(PyStr(s_all), PyStr(s_write_all))>>),
     PyDict(<<KV(PyStr(s_contents), PyStr(s_read)), KV(PyStr(s_line), PyInt(3))>>)}

----------------------------------------------------------------------------
(* The engine at rest, for the specifications of the parser.               *)

\* the scan command is not running
CliOff == [pc |-> "off"]

\* no concurrent call
NoThreads == <<>>

EngineIdle ==
    /\ _rules = <<>>
    /\ pc = "off"
    /\ workflow = PyNone
    /\ idx = 0
    /\ findings = <<>>
    /\ calls = <<>>
    /\ history = <<>>

----------------------------------------------------------------------------
(* SpecRef: _parse_action_ref applied to one reference string.             *)

InitRef ==
    /\ fn = "idle"
    /\ arg \in {PyStr(s) : s \in RefInputs}
    /\ ret = PyNone
    /\ fs = <<>>
    /\ EngineIdle
    /\ cli = CliOff
    /\ threads = NoThreads

CallParseActionRef ==
    /\ fn = "idle"
    /\ fn' = "_parse_action_ref"
    /\ ret' = _parse_action_ref(arg)
    /\ UNCHANGED <<arg, fs>>
    /\ UNCHANGED engineVars
    /\ UNCHANGED <<cli, threads>>

NextRef == CallParseActionRef

SpecRef == InitRef /\ [][NextRef]_vars

----------------------------------------------------------------------------
(* SpecParse: the parser's functions applied over one file system.         *)

InitParse ==
    /\ fn = "idle"
    /\ arg = PyNone
    /\ ret = PyNone
    /\ fs \in FileSystems
    /\ EngineIdle
    /\ cli = CliOff
    /\ threads = NoThreads

CallParseTriggers ==
    /\ fn = "idle"
    /\ \E on_field \in TriggerInputs :
        /\ fn' = "_parse_triggers"
        /\ arg' = on_field
        /\ ret' = _parse_triggers(on_field)
    /\ UNCHANGED fs
    /\ UNCHANGED engineVars
    /\ UNCHANGED <<cli, threads>>

CallParsePermissions ==
    /\ fn = "idle"
    /\ \E perm_field \in PermissionInputs :
        /\ fn' = "_parse_permissions"
        /\ arg' = perm_field
        /\ ret' = _parse_permissions(perm_field)
    /\ UNCHANGED fs
    /\ UNCHANGED engineVars
    /\ UNCHANGED <<cli, threads>>

CallParseWorkflow ==
    /\ fn = "idle"
    /\ \E file_path \in FilePaths :
        /\ fn' = "parse_workflow"
        /\ arg' = file_path
        /\ ret' = parse_workflow(fs, file_path)
    /\ UNCHANGED fs
    /\ UNCHANGED engineVars
    /\ UNCHANGED <<cli, threads>>

CallParseWorkflowsDir ==
    /\ fn = "idle"
    /\ fn' = "parse_workflows_dir"
    /\ arg' = WfDir
    /\ ret' = parse_workflows_dir(fs, WfDir)
    /\ UNCHANGED fs
    /\ UNCHANGED engineVars
    /\ UNCHANGED <<cli, threads>>

NextParse ==
    \/ CallParseTriggers
    \/ CallParsePermissions
    \/ CallParseWorkflow
    \/ CallParseWorkflowsDir

SpecParse == InitParse /\ [][NextParse]_vars

----------------------------------------------------------------------------
(* Claims about the reference parser, under SpecRef.                       *)

HexChars ==
    {"0", "1", "2", "3", "4", "5", "6", "7", "8", "9",
     "a", "b", "c", "d", "e", "f", "A", "B", "C", "D", "E", "F"}

\* the text after the last "@" of a string that holds one
TextAfterLastAt(s) ==
    LET k == CHOOSE i \in 1..Len(s) : s[i] = "@" /\ \A j \in (i + 1)..Len(s) : s[j] # "@"
    IN  [i \in 1..(Len(s) - k) |-> s[k + i]]

RefReturned == fn = "_parse_action_ref" /\ ret.t = "ActionRef"

\* C1: whenever _parse_action_ref returns an ActionRef, is_pinned is true if and
\* only if the text after the last "@" has exactly 40 characters, each one of
\* 0-9, a-f or A-F; so 39 hex characters are not pinned and 40 upper-case ones are.
C1_PinnedIffFortyHex ==
    RefReturned =>
        LET rev == TextAfterLastAt(arg.s)
        IN  ret.is_pinned <=> (Len(rev) = 40 /\ \A i \in 1..Len(rev) : rev[i] \in HexChars)

\* a 40-character upper-case revision was parsed and is pinned
C1_Witness ==
    /\ RefReturned
    /\ ret.is_pinned
    /\ TextAfterLastAt(arg.s) = [i \in 1..40 |-> "F"]

HasChar(s, c) == \E i \in 1..Len(s) : s[i] = c

\* the four malformed shapes: empty, no "/", prefix docker:// or ./, no "@"
FourShapes(s) ==
    \/ s = <<>>
    \/ ~HasChar(s, "/")
    \/ (Len(s) >= 9 /\ SubSeq(s, 1, 9) = <<"d","o","c","k","e","r",":","/","/">>)
    \/ (Len(s) >= 2 /\ SubSeq(s, 1, 2) = <<".","/">>)
    \/ ~HasChar(s, "@")

\* a fifth shape: no "/" stands before the last "@"
NoSlashBeforeLastAt(s) ==
    \E k \in 1..Len(s) :
        /\ s[k] = "@"
        /\ \A j \in (k + 1)..Len(s) : s[j] # "@"
        /\ \A j \in 1..(k - 1) : s[j] # "/"

\* C2 as stated: _parse_action_ref never raises on a string and returns None
\* exactly for the four malformed shapes, an ActionRef for every other string.
C2_NoneExactlyFourShapes ==
    fn = "_parse_action_ref" =>
        /\ ret.t \in {"None", "ActionRef"}
        /\ ret = PyNone <=> FourShapes(arg.s)

\* C2 amended: _parse_action_ref never raises on a string and returns None
\* exactly when the string is empty, holds no "/", starts with docker:// or ./,
\* holds no "@", or has no "/" before its last "@"; otherwise an ActionRef.
C2_NoneExactlyFiveShapes ==
    fn = "_parse_action_ref" =>
        /\ ret.t \in {"None", "ActionRef"}
        /\ ret = PyNone <=> (FourShapes(arg.s) \/ NoSlashBeforeLastAt(arg.s))

\* None was returned for a string of none of the four shapes
C2_Witness ==
    /\ fn = "_parse_action_ref"
    /\ ret = PyNone
    /\ ~FourShapes(arg.s)

----------------------------------------------------------------------------
(* Claims about the normalizer and the entry points, under SpecParse.      *)

\* the document a parsed path holds
ContentOf(path) == fs[path].content

ParsedWorkflow == fn = "parse_workflow" /\ ret.t = "Workflow"

\* C3: _parse_triggers maps a str s to [s], returns a list as it is, maps a
\* mapping to its keys in declaration order and None to []; a document without
\* a trigger field has the empty trigger list.
C3_TriggerShapes ==
    /\ fn = "_parse_triggers" =>
        /\ arg.t = "str" => ret = PyList(<<arg>>)
        /\ arg.t = "list" => ret = arg
        /\ arg.t = "dict" =>
            /\ ret.t = "list"
            /\ Len(ret.items) = Len(arg.kv)
            /\ \A i \in 1..Len(arg.kv) : ret.items[i] = arg.kv[i].k
        /\ arg.t = "None" => ret = PyList(<<>>)
    /\ ParsedWorkflow =>
        ((\A i \in 1..Len(ContentOf(arg).kv) :
              ContentOf(arg).kv[i].k \notin {PyStr(<<"o","n">>), PyBool(TRUE)})
            => ret.triggers = PyList(<<>>))

\* a mapping of two triggers came back as its two keys, in order
C3_Witness ==
    /\ fn = "_parse_triggers"
    /\ arg.t = "dict"
    /\ Len(arg.kv) = 2
    /\ arg.kv[1].k # arg.kv[2].k
    /\ ret.items = <<arg.kv[1].k, arg.kv[2].k>>

\* what the claim says a permission field becomes
PermissionOf(field) ==
    CASE field.t = "None" -> PyNone
      [] field.t = "str"  -> PyDict(<<KV(PyStr(<<"_","a","l","l">>), field)>>)
      [] field.t = "dict" -> field

PermField(raw) == DictGet(raw, PyStr(<<"p","e","r","m","i","s","s","i","o","n","s">>), PyNone)

\* C4: _parse_permissions maps None to None, a str s to {"_all": s} and a
\* mapping to itself, for the permission field of the document and of every job.
C4_PermissionShapes ==
    /\ (fn = "_parse_permissions" /\ arg.t \in {"None", "str", "dict"}) =>
        ret = PermissionOf(arg)
    /\ ParsedWorkflow =>
        /\ PermField(ret.raw).t \in {"None", "str", "dict"} =>
               ret.permissions = PermissionOf(PermField(ret.raw))
        /\ \A i \in 1..Len(ret.jobs) :
               PermField(ret.jobs[i].raw).t \in {"None", "str", "dict"} =>
                   ret.jobs[i].permissions = PermissionOf(PermField(ret.jobs[i].raw))

\* a parsed job declared permissions: write-all and holds {"_all": "write-all"}
C4_Witness ==
    /\ ParsedWorkflow
    /\ \E i \in 1..Len(ret.jobs) :
        /\ PermField(ret.jobs[i].raw) = PyStr(<<"w","r","i","t","e","-","a","l","l">>)
        /\ ret.jobs[i].permissions =
               PyDict(<<KV(PyStr(<<"_","a","l","l">>),
                           PyStr(<<"w","r","i","t","e","-","a","l","l">>))>>)

\* C5 as stated: parse_workflow raises FileNotFoundError for a missing path,
\* yaml.YAMLError for text that is no YAML, ValueError for a root that is no
\* mapping, and returns a Workflow in every other case.
C5_ThreeErrorKinds ==
    fn = "parse_workflow" =>
        IF arg \notin DOMAIN fs THEN ret = Raise("FileNotFoundError")
        ELSE IF ContentOf(arg).t = "unparseable" THEN ret = Raise("YAMLError")
        ELSE IF ContentOf(arg).t # "ymap" THEN ret = Raise("ValueError")
        ELSE ret.t = "Workflow"

\* C6 as stated: a tree whose root is a mapping always normalizes to a Workflow,
\* whatever its optional fields hold.
C6_MappingRootNeverRaises ==
    (fn = "parse_workflow" /\ arg \in DOMAIN fs) =>
        (ContentOf(arg).t = "ymap" => ret.t # "raise")

\* the .yml/.yaml files of the directory
YamlPaths ==
    {p \in DOMAIN fs : Len(p) = 2 /\ p[1] = <<"w","f">>
                         /\ suffix(p[2]) \in {<<".","y","m","l">>, <<".","y","a","m","l">>}}

\* C7 as stated: parse_workflows_dir raises NotADirectoryError for a path that
\* is no directory and otherwise returns the Workflows of exactly the
\* .yml/.yaml files that parse, in sorted path order, whatever the other files
\* hold (so [] for a directory without such files).
C7_BatchSkipsFailures ==
    fn = "parse_workflows_dir" =>
        IF ~(arg \in DOMAIN fs /\ fs[arg].kind = "dir") THEN ret = Raise("NotADirectoryError")
        ELSE LET good == {p \in YamlPaths : parse_workflow(fs, p).t = "Workflow"}
             IN  /\ ret.t = "list"
                 /\ Len(ret.items) = Cardinality(good)
                 /\ \A p \in good : \E i \in 1..Len(ret.items) :
                        ret.items[i] = parse_workflow(fs, p)
                 /\ \A i, j \in 1..Len(ret.items) :
                        i < j => str_lt(ret.items[i].file_path.s, ret.items[j].file_path.s)

----------------------------------------------------------------------------
(* rules/engine.py: Severity, Finding and the registry.                    *)

Severities == {"CRITICAL", "HIGH", "MEDIUM", "LOW"}

\* the fields of the Finding dataclass (lines 26-32)
FindingFields ==
    {"rule_id", "severity", "title", "description", "file_path", "job_id", "step_name"}

\* Finding(**kw): the generated __init__ takes exactly the declared fields
Finding(kw) ==
    IF DOMAIN kw = FindingFields THEN [t |-> "Finding"] @@ kw ELSE Raise("TypeError")

\* an f-string: the template's name and the values it interpolates, in order
Lit(text) == [lit |-> text]
Template(text, values) == <<Lit(text)>> \o values

\* a or b
PyOr(a, b) == IF Truthy(a) THEN a ELSE b

RECURSIVE Flatten(_)
Flatten(xss) == IF Len(xss) = 0 THEN <<>> ELSE xss[1] \o Flatten(Tail(xss))

\* what a rule returns: the findings appended before the first exception do
\* not leave the function, the exception does
RuleResult(appended) ==
    IF FirstRaise(appended).t = "raise" THEN FirstRaise(appended) ELSE PyList(appended)

\* for job in workflow.jobs: for step in job.steps: the (job, step) pairs in order
job_steps(wf) ==
    Flatten([j \in 1..Len(wf.jobs) |->
                [k \in 1..Len(wf.jobs[j].steps) |->
                    [job |-> wf.jobs[j], step |-> wf.jobs[j].steps[k]]]])

----------------------------------------------------------------------------
(* rules/unpinned_actions.py                                               *)

unpinned_step(wf, job, step) ==
    IF step.uses.t = "ActionRef" /\ ~step.uses.is_pinned
    THEN <<Finding([rule_id |-> "unpinned-action",
                    severity |-> "HIGH",
                    title |-> Template("Unpinned action reference", <<>>),
                    description |-> Template("Action is referenced by tag/branch",
                                             <<PyStr(step.uses.full_ref), PyStr(step.uses.ref)>>),
                    file_path |-> wf.file_path,
                    job_id |-> job.job_id,
                    step_name |-> PyOr(step.name, PyStr(step.uses.full_ref)),
                    line_number |-> step.line_number])>>
    ELSE <<>>

check_unpinned_actions(wf) ==
    RuleResult(Flatten([i \in 1..Len(job_steps(wf)) |->
                           unpinned_step(wf, job_steps(wf)[i].job, job_steps(wf)[i].step)]))

----------------------------------------------------------------------------
(* rules/permissions.py                                                    *)

IsWriteAll(perms) == DictGet(perms, PyStr(s_all), PyNone) = PyStr(s_write_all)

\* the first branch taken for every field that is not write-all
workflow_permissions_unless_write_all(wf) ==
    IF wf.permissions.t = "None" \/ ~IsWriteAll(wf.permissions)
    THEN <<Finding([rule_id |-> "missing-permissions",
                    severity |-> "MEDIUM",
                    title |-> Template("No top-level permissions defined", <<>>),
                    description |-> Template("This workflow does not declare permissions", <<>>),
                    file_path |-> wf.file_path,
                    job_id |-> PyStr(<<>>),
                    step_name |-> PyStr(<<>>)])>>
    ELSE <<>>

workflow_permissions(wf) ==
    IF wf.permissions.t = "None"
    THEN <<Finding([rule_id |-> "missing-permissions",
                    severity |-> "MEDIUM",
                    title |-> Template("No top-level permissions defined", <<>>),
                    description |-> Template("This workflow does not declare permissions", <<>>),
                    file_path |-> wf.file_path,
                    job_id |-> PyStr(<<>>),
                    step_name |-> PyStr(<<>>)])>>
    ELSE IF IsWriteAll(wf.permissions)
    THEN <<Finding([rule_id |-> "write-all-permissions",
                    severity |-> "CRITICAL",
                    title |-> Template("Workflow uses 'permissions: write-all'", <<>>),
                    description |-> Template("This workflow grants write access to ALL scopes", <<>>),
                    file_path |-> wf.file_path,
                    job_id |-> PyStr(<<>>),
                    step_name |-> PyStr(<<>>)])>>
    ELSE <<>>

\* the job's display name in the place of its id
job_permissions_by_name(wf, job) ==
    IF Truthy(job.permissions) /\ IsWriteAll(job.permissions)
    THEN <<Finding([rule_id |-> "write-all-permissions",
                    severity |-> "CRITICAL",
                    title |-> Template("Job uses 'permissions: write-all'", <<job.job_id>>),
                    description |-> Template("Job grants write access to ALL scopes", <<job.job_id>>),
                    file_path |-> wf.file_path,
                    job_id |-> job.name,
                    step_name |-> PyStr(<<>>)])>>
    ELSE <<>>

job_permissions(wf, job) ==
    IF Truthy(job.permissions) /\ IsWriteAll(job.permissions)
    THEN <<Finding([rule_id |-> "write-all-permissions",
                    severity |-> "CRITICAL",
                    title |-> Template("Job uses 'permissions: write-all'", <<job.job_id>>),
                    description |-> Template("Job grants write access to ALL scopes", <<job.job_id>>),
                    file_path |-> wf.file_path,
                    job_id |-> job.job_id,
                    step_name |-> PyStr(<<>>)])>>
    ELSE <<>>

\* the job loop alone
check_permissions_jobs_only(wf) ==
    RuleResult(Flatten([j \in 1..Len(wf.jobs) |-> job_permissions(wf, wf.jobs[j])]))

check_permissions(wf) ==
    RuleResult(workflow_permissions(wf)
               \o Flatten([j \in 1..Len(wf.jobs) |-> job_permissions(wf, wf.jobs[j])]))

----------------------------------------------------------------------------
(* rules/script_injection.py                                               *)

s_unnamed_step == <<"(","u","n","n","a","m","e","d"," ","s","t","e","p",")">>

DANGEROUS_CONTEXTS ==
    <<<<"g","i","t","h","u","b",".","e","v","e","n","t",".","i","s","s","u","e",".","t","i","t","l","e">>,
      <<"g","i","t","h","u","b",".","e","v","e","n","t",".","i","s","s","u","e",".","b","o","d","y">>,
      <<"g","i","t","h","u","b",".","e","v","e","n","t",".","p","u","l","l","_","r","e","q","u","e","s","t",".","t","i","t","l","e">>,
      <<"g","i","t","h","u","b",".","e","v","e","n","t",".","p","u","l","l","_","r","e","q","u","e","s","t",".","b","o","d","y">>,
      <<"g","i","t","h","u","b",".","e","v","e","n","t",".","c","o","m","m","e","n","t",".","b","o","d","y">>,
      <<"g","i","t","h","u","b",".","e","v","e","n","t",".","r","e","v","i","e","w",".","b","o","d","y">>,
      <<"g","i","t","h","u","b",".","e","v","e","n","t",".","d","i","s","c","u","s","s","i","o","n",".","t","i","t","l","e">>,
      <<"g","i","t","h","u","b",".","e","v","e","n","t",".","d","i","s","c","u","s","s","i","o","n",".","b","o","d","y">>,
      <<"g","i","t","h","u","b",".","e","v","e","n","t",".","p","a","g","e","s",".","*",".","p","a","g","e","_","n","a","m","e">>,
      <<"g","i","t","h","u","b",".","e","v","e","n","t",".","h","e","a","d","_","c","o","m","m","i","t",".","m","e","s","s","a","g","e">>,
      <<"g","i","t","h","u","b",".","e","v","e","n","t",".","h","e","a","d","_","c","o","m","m","i","t",".","a","u","t","h","o","r",".","n","a","m","e">>,
      <<"g","i","t","h","u","b",".","e","v","e","n","t",".","h","e","a","d","_","c","o","m","m","i","t",".","a","u","t","h","o","r",".","e","m","a","i","l">>,
      <<"g","i","t","h","u","b",".","h","e","a","d","_","r","e","f">>>>

\* re: "${{" starts at p
ExprOpensAt(s, p) == p + 2 <= Len(s) /\ s[p] = "$" /\ s[p + 1] = "{" /\ s[p + 2] = "{"

\* re: "}}" starts at q
ExprClosesAt(s, q) == q + 1 <= Len(s) /\ s[q] = "}" /\ s[q + 1] = "}"

\* EXPRESSION_PATTERN.findall(s) from position i: leftmost "${{", shortest
\* text up to "}}" (DOTALL: any character), then on from behind the match
RECURSIVE findall_expression(_, _)
findall_expression(s, i) ==
    IF ~\E p \in i..Len(s) : ExprOpensAt(s, p) THEN <<>>
    ELSE LET p == CHOOSE x \in i..Len(s) :
                      ExprOpensAt(s, x) /\ \A y \in i..(x - 1) : ~ExprOpensAt(s, y)
         IN  IF ~\E q \in (p + 3)..Len(s) : ExprClosesAt(s, q) THEN <<>>
             ELSE LET q == CHOOSE x \in (p + 3)..Len(s) :
                               ExprClosesAt(s, x) /\ \A y \in (p + 3)..(x - 1) : ~ExprClosesAt(s, y)
                  IN  <<SubSeq(s, p, q + 1)>> \o findall_expression(s, q + 2)

\* str.strip(chars)
RECURSIVE strip(_, _)
strip(s, chars) ==
    IF Len(s) = 0 THEN s
    ELSE IF s[1] \in chars THEN strip(Tail(s), chars)
    ELSE IF s[Len(s)] \in chars THEN strip(SubSeq(s, 1, Len(s) - 1), chars)
    ELSE s

\* lines 47-67: the findings of one expression, one per dangerous context in it
injection_expr(wf, job, step, expr) ==
    LET expr_inner == strip(expr, {"$", "{", "}", " "})
        hits == SelectSeq(DANGEROUS_CONTEXTS, LAMBDA d : IsSubstring(d, expr_inner))
    IN  [h \in 1..Len(hits) |->
            Finding([rule_id |-> "script-injection",
                     severity |-> "CRITICAL",
                     title |-> Template("Potential script injection", <<>>),
                     description |-> Template("The expression uses the user-controlled context",
                                              <<PyStr(expr), PyStr(hits[h]), PyStr(expr)>>),
                     file_path |-> wf.file_path,
                     job_id |-> job.job_id,
                     step_name |-> PyOr(step.name, PyStr(s_unnamed_step)),
                     line_number |-> step.line_number])]

injection_step(wf, job, step) ==
    IF ~Truthy(step.run) THEN <<>>
    ELSE IF step.run.t # "str" THEN <<Raise("TypeError")>>      \* findall on a non-string
    ELSE LET expressions == findall_expression(step.run.s, 1)
         IN  Flatten([e \in 1..Len(expressions) |->
                         injection_expr(wf, job, step, expressions[e])])

check_script_injection(wf) ==
    RuleResult(Flatten([i \in 1..Len(job_steps(wf)) |->
                           injection_step(wf, job_steps(wf)[i].job, job_steps(wf)[i].step)]))

----------------------------------------------------------------------------
(* rules/dangerous_triggers.py                                             *)

\* the second test as an elif of the first
check_dangerous_triggers_elif(wf) ==
    RuleResult(
        (IF PyIn(PyStr(s_pull_request_target), wf.triggers).b
         THEN <<Finding([rule_id |-> "dangerous-trigger",
                         severity |-> "HIGH",
                         title |-> Template("Workflow uses 'pull_request_target' trigger", <<>>),
                         description |-> Template("The 'pull_request_target' trigger runs with write access", <<>>),
                         file_path |-> wf.file_path,
                         job_id |-> PyStr(<<>>),
                         step_name |-> PyStr(<<>>)])>>
         ELSE <<>>)
        \o
        (IF ~PyIn(PyStr(s_pull_request_target), wf.triggers).b
            /\ PyIn(PyStr(s_workflow_dispatch), wf.triggers).b
         THEN <<Finding([rule_id |-> "manual-trigger",
                         severity |-> "LOW",
                         title |-> Template("Workflow can be triggered manually", <<>>),
                         description |-> Template("This workflow uses 'workflow_dispatch'", <<>>),
                         file_path |-> wf.file_path,
                         job_id |-> PyStr(<<>>),
                         step_name |-> PyStr(<<>>)])>>
         ELSE <<>>))

check_dangerous_triggers(wf) ==
    RuleResult(
        (IF PyIn(PyStr(s_pull_request_target), wf.triggers).b
         THEN <<Finding([rule_id |-> "dangerous-trigger",
                         severity |-> "HIGH",
                         title |-> Template("Workflow uses 'pull_request_target' trigger", <<>>),
                         description |-> Template("The 'pull_request_target' trigger runs with write access", <<>>),
                         file_path |-> wf.file_path,
                         job_id |-> PyStr(<<>>),
                         step_name |-> PyStr(<<>>)])>>
         ELSE <<>>)
        \o
        (IF PyIn(PyStr(s_workflow_dispatch), wf.triggers).b
         THEN <<Finding([rule_id |-> "manual-trigger",
                         severity |-> "LOW",
                         title |-> Template("Workflow can be triggered manually", <<>>),
                         description |-> Template("This workflow uses 'workflow_dispatch'", <<>>),
                         file_path |-> wf.file_path,
                         job_id |-> PyStr(<<>>),
                         step_name |-> PyStr(<<>>)])>>
         ELSE <<>>))

----------------------------------------------------------------------------
(* rules/secret_handling.py                                                *)

s_secrets_dot == <<"s","e","c","r","e","t","s",".">>

WordChars ==
    {"a", "b", "c", "d", "e", "f", "g", "h", "i", "j", "k", "l", "m", "n", "o", "p", "q", "r", "s", "t", "u", "v", "w", "x", "y", "z", "A", "B", "C", "D", "E", "F", "G", "H", "I", "J", "K", "L", "M", "N", "O", "P", "Q", "R", "S", "T", "U", "V", "W", "X", "Y", "Z", "0", "1", "2", "3", "4", "5", "6", "7", "8", "9", "_"}

SpaceChars == {" ", "\t", "\n", "\r", "\f"}

\* the first position from i on whose character is not in chars (Len(s) + 1 when none)
SkipChars(s, i, chars) ==
    IF \E x \in i..Len(s) : s[x] \notin chars
    THEN CHOOSE x \in i..Len(s) : s[x] \notin chars /\ \A y \in i..(x - 1) : s[y] \in chars
    ELSE Len(s) + 1

\* SECRET_REF_PATTERN matched at p: the position of the match's last
\* character, 0 when it does not match there
secret_match_end(s, p) ==
    IF ~ExprOpensAt(s, p) THEN 0
    ELSE LET a == SkipChars(s, p + 3, SpaceChars)
         IN  IF ~(a + 7 <= Len(s) /\ SubSeq(s, a, a + 7) = s_secrets_dot) THEN 0
             ELSE LET b == SkipChars(s, a + 8, WordChars)
                      c == SkipChars(s, b, SpaceChars)
                  IN  IF b > a + 8 /\ ExprClosesAt(s, c) THEN c + 1 ELSE 0

\* SECRET_REF_PATTERN.findall(s) from position i
RECURSIVE findall_secret(_, _)
findall_secret(s, i) ==
    IF i > Len(s) THEN <<>>
    ELSE IF secret_match_end(s, i) > 0
    THEN <<SubSeq(s, i, secret_match_end(s, i))>> \o findall_secret(s, secret_match_end(s, i) + 1)
    ELSE findall_secret(s, i + 1)

secret_step(wf, job, step) ==
    IF ~Truthy(step.run) THEN <<>>
    ELSE IF step.run.t # "str" THEN <<Raise("TypeError")>>      \* findall on a non-string
    ELSE LET secrets_in_run == findall_secret(step.run.s, 1)
         IN  IF Len(secrets_in_run) > 0
             THEN <<Finding([rule_id |-> "secret-in-run",
                             severity |-> "HIGH",
                             title |-> Template("Secret used directly in 'run:' block", <<>>),
                             description |-> Template("The step uses secrets directly in a shell command",
                                                      [x \in 1..Len(secrets_in_run) |->
                                                          PyStr(secrets_in_run[x])]),
                             file_path |-> wf.file_path,
                             job_id |-> job.job_id,
                             step_name |-> PyOr(step.name, PyStr(s_unnamed_step)),
                             line_number |-> step.line_number])>>
             ELSE <<>>

check_secret_handling(wf) ==
    RuleResult(Flatten([i \in 1..Len(job_steps(wf)) |->
                           secret_step(wf, job_steps(wf)[i].job, job_steps(wf)[i].step)]))

----------------------------------------------------------------------------
(* Spec: the rule modules register their checks, then run_all_rules is     *)
(* called on one workflow after another.                                   *)

MaxRuns == 2

\* rules/__init__.py: the rule modules in import order, each registering one check
RuleModules ==
    <<"check_unpinned_actions", "check_permissions", "check_script_injection",
      "check_dangerous_triggers", "check_secret_handling">>

\* rule(workflow)
apply_rule(rule, wf) ==
    CASE rule = "check_unpinned_actions"   -> check_unpinned_actions(wf)
      [] rule = "check_permissions"        -> check_permissions(wf)
      [] rule = "check_script_injection"   -> check_script_injection(wf)
      [] rule = "check_dangerous_triggers" -> check_dangerous_triggers(wf)
      [] rule = "check_secret_handling"    -> check_secret_handling(wf)

\* _rules.append(func)
register_rule(rules, func) == Append(rules, func)

\* findings = []
initial_findings_kept(previous) == previous
initial_findings(previous) == <<>>

\* rule_findings = rule(workflow); findings.extend(rule_findings)
run_rule_prepend(fnds, rule_findings) ==
    IF rule_findings.t = "raise" THEN rule_findings ELSE PyList(rule_findings.items \o fnds)
run_rule_swallow(fnds, rule_findings) ==
    IF rule_findings.t = "raise" THEN PyList(fnds) ELSE PyList(fnds \o rule_findings.items)
run_rule(fnds, rule_findings) ==
    IF rule_findings.t = "raise" THEN rule_findings ELSE PyList(fnds \o rule_findings.items)

\* a check that drops the repeated triggers of the Document in place
document_after_dedup(rule, wf) ==
    [wf EXCEPT !.triggers =
        PyList(Flatten([i \in 1..Len(wf.triggers.items) |->
                           IF \E j \in 1..(i - 1) : wf.triggers.items[j] = wf.triggers.items[i]
                           THEN <<>> ELSE <<wf.triggers.items[i]>>]))]

\* the Document after rule(workflow): the checks only read workflow, its jobs
\* and steps and append to a list of their own; none assigns to a field or
\* calls a mutating method on them
document_after(rule, wf) == wf

\* the step lists of the one job of an engine document
EngineSteps ==
    {<<"pinned", "run">>, <<"sha">>, <<"unpinned">>, <<"inject">>,
     <<"secret">>, <<"secret", "inject">>, <<"intrun">>}

EngineJobs ==
    {[k |-> "absent", jobs |-> <<>>]}
    \cup {[k |-> "map", jobs |-> <<[k |-> "map", steps |-> [k |-> "list", kinds |-> ks],
                                    perm |-> "write-all"]>>] : ks \in EngineSteps}

EngineDocs ==
    {YDoc(oo, po, jso) : oo \in {"list", "dups"}, po \in {"absent", "write-all"},
                         jso \in EngineJobs}
    \cup {YDoc("str", "absent", jso) :
             jso \in {[k |-> "absent", jobs |-> <<>>],
                      [k |-> "map", jobs |-> <<[k |-> "map", steps |-> [k |-> "absent", kinds |-> <<>>],
                                                perm |-> "scoped"]>>],
                      [k |-> "map", jobs |-> <<[k |-> "map", steps |-> [k |-> "list", kinds |-> <<>>],
                                                perm |-> "write-all"]>>]}}

\* the workflows the scan hands to the engine: what parse_workflow returned
EngineWorkflows ==
    {parse_workflow(DirWith([n \in {n_a_yml} |-> d]), <<n_wf, n_a_yml>>) : d \in EngineDocs}

Init ==
    /\ fn = "idle"
    /\ arg = PyNone
    /\ ret = PyNone
    /\ fs = <<>>
    /\ _rules = <<>>
    /\ pc = "import"
    /\ workflow = PyNone
    /\ idx = 0
    /\ findings = <<>>
    /\ calls = <<>>
    /\ history = <<>>
    /\ cli = CliOff
    /\ threads = NoThreads

\* import of the next rule module: @register_rule
RegisterRule ==
    /\ pc = "import"
    /\ _rules' = register_rule(_rules, RuleModules[Len(_rules) + 1])
    /\ pc' = IF Len(_rules') = Len(RuleModules) THEN "ready" ELSE "import"
    /\ UNCHANGED <<workflow, idx, findings, calls, history>>
    /\ UNCHANGED parserVars
    /\ UNCHANGED <<cli, threads>>

\* run_all_rules(workflow), up to the loop
RunStart ==
    /\ pc = "ready"
    /\ Len(history) < MaxRuns
    /\ \E wf \in EngineWorkflows : workflow' = wf
    /\ findings' = initial_findings(findings)
    /\ idx' = 1
    /\ calls' = <<>>
    /\ pc' = "loop"
    /\ UNCHANGED <<_rules, history>>
    /\ UNCHANGED parserVars
    /\ UNCHANGED <<cli, threads>>

\* one iteration of the loop; an exception of the rule ends the call
RunRule ==
    /\ pc = "loop"
    /\ idx <= Len(_rules)
    /\ LET rule_findings == apply_rule(_rules[idx], workflow)
           extended == run_rule(findings, rule_findings)
       IN  /\ calls' = Append(calls, [rule |-> _rules[idx], out |-> rule_findings])
           /\ IF extended.t = "raise"
              THEN /\ history' = Append(history, [workflow |-> workflow, outcome |-> extended,
                                                  calls |-> calls', rules |-> _rules])
                   /\ pc' = "ready"
                   /\ UNCHANGED <<findings, idx>>
              ELSE /\ findings' = extended.items
                   /\ idx' = idx + 1
                   /\ UNCHANGED <<history, pc>>
    /\ workflow' = document_after(_rules[idx], workflow)
    /\ UNCHANGED _rules
    /\ UNCHANGED parserVars
    /\ UNCHANGED <<cli, threads>>

\* return findings
RunReturn ==
    /\ pc = "loop"
    /\ idx > Len(_rules)
    /\ history' = Append(history, [workflow |-> workflow, outcome |-> PyList(findings),
                                   calls |-> calls, rules |-> _rules])
    /\ pc' = "ready"
    /\ UNCHANGED <<_rules, workflow, idx, findings, calls>>
    /\ UNCHANGED parserVars
    /\ UNCHANGED <<cli, threads>>

Next == RegisterRule \/ RunStart \/ RunRule \/ RunReturn

Spec == Init /\ [][Next]_vars

----------------------------------------------------------------------------
(* Claims about the engine.                                                *)

Returned(run) == run.outcome.t = "list"
Raised(run) == run.outcome.t = "raise"

CalledRules(run) == [i \in 1..Len(run.calls) |-> run.calls[i].rule]
Outputs(run) == [i \in 1..Len(run.calls) |-> run.calls[i].out.items]

RECURSIVE SumLen(_)
SumLen(xss) == IF Len(xss) = 0 THEN 0 ELSE Len(xss[1]) + SumLen(Tail(xss))

\* C8: a call of run_all_rules that returns has invoked every registered
\* check exactly once, in registration order, and returns the concatenation
\* of the checks' outputs in that order, each output in its own order and
\* nothing added, dropped or reordered, so the length of the result is the
\* sum of the lengths of the outputs.
C8_ConcatenationInRegistrationOrder ==
    \A r \in 1..Len(history) :
        Returned(history[r]) =>
            /\ CalledRules(history[r]) = history[r].rules
            /\ history[r].outcome.items = Flatten(Outputs(history[r]))
            /\ Len(history[r].outcome.items) = SumLen(Outputs(history[r]))

\* a returned call in which two different checks produced findings, one of
\* them more than one
C8_Witness ==
    \E r \in 1..Len(history) :
        /\ Returned(history[r])
        /\ Len(history[r].rules) = Len(RuleModules)
        /\ \E i, j \in 1..Len(history[r].calls) :
               /\ i < j
               /\ Len(history[r].calls[i].out.items) > 1
               /\ Len(history[r].calls[j].out.items) > 0

\* C9: when a check raises, the call of run_all_rules ends with that same
\* exception and returns no list, the checks registered after the raising
\* one are not invoked, and the checks before it were each invoked once in
\* registration order.
C9_ExceptionPropagates ==
    \A r \in 1..Len(history) :
        LET run == history[r]
            n == Len(run.calls)
        IN  /\ (\E i \in 1..n : run.calls[i].out.t = "raise") =>
                   /\ Raised(run)
                   /\ run.calls[n].out.t = "raise"
                   /\ run.outcome = run.calls[n].out
                   /\ \A i \in 1..(n - 1) : run.calls[i].out.t = "list"
                   /\ CalledRules(run) = SubSeq(run.rules, 1, n)
            /\ Raised(run) => \E i \in 1..n : run.calls[i].out.t = "raise"

\* a check raises after earlier checks produced findings, with checks
\* registered after it
C9_Witness ==
    \E r \in 1..Len(history) :
        /\ Raised(history[r])
        /\ Len(history[r].calls) < Len(history[r].rules)
        /\ \E i \in 1..Len(history[r].calls) :
               /\ history[r].calls[i].out.t = "list"
               /\ Len(history[r].calls[i].out.items) > 0

\* C10: two calls of run_all_rules on the same workflow with the same
\* registry end alike, with the same findings in the same order, whatever
\* was evaluated in between or before.
C10_SameWorkflowSameResult ==
    \A r1, r2 \in 1..Len(history) :
        (history[r1].workflow = history[r2].workflow /\ history[r1].rules = history[r2].rules)
            => history[r1].outcome = history[r2].outcome

\* the same workflow evaluated twice, both calls returning findings
C10_Witness ==
    \E r1, r2 \in 1..Len(history) :
        /\ r1 < r2
        /\ history[r1].workflow = history[r2].workflow
        /\ Returned(history[r1])
        /\ Returned(history[r2])
        /\ Len(history[r2].outcome.items) > 1

----------------------------------------------------------------------------
(* SpecRules: one built-in check applied to one parsed workflow.           *)

RuleStepKinds ==
    {"pinned", "unpinned", "named", "run", "inject", "sha", "secret", "secret2",
     "envsecret", "multi", "twoctx", "intrun"}

OneJob(ks, po) == [k |-> "map", steps |-> [k |-> "list", kinds |-> ks], perm |-> po]

\* one job, every list of steps
StepDocs ==
    {YDoc("str", "scoped", [k |-> "map", jobs |-> <<OneJob(ks, "absent")>>]) :
        ks \in SeqsUpTo(RuleStepKinds, MaxSteps)}

\* two jobs
TwoJobDocs ==
    {YDoc("str", "scoped", [k |-> "map", jobs |-> <<OneJob(ks1, "absent"), OneJob(ks2, "absent")>>]) :
        ks1, ks2 \in {<<>>, <<"unpinned">>, <<"named", "pinned">>, <<"secret", "inject">>}}

\* every trigger shape and permission shape, of the document and of its jobs
PermTriggerDocs ==
    {YDoc(oo, po, jso) :
        oo \in {"absent", "str", "list", "dups", "map", "pr", "all", "null"},
        po \in {"absent", "null", "write-all", "read-all", "scoped", "allmap", "list"},
        jso \in {[k |-> "absent", jobs |-> <<>>],
                 [k |-> "map", jobs |-> <<OneJob(<<"pinned">>, "write-all"), OneJob(<<>>, "scoped")>>],
                 [k |-> "map", jobs |-> <<OneJob(<<>>, "allmap"), OneJob(<<"run">>, "write-all")>>]}}

RuleDocs == StepDocs \cup TwoJobDocs \cup PermTriggerDocs

RuleWorkflows ==
    {parse_workflow(DirWith([n \in {n_a_yml} |-> d]), <<n_wf, n_a_yml>>) : d \in RuleDocs}

InitRules ==
    /\ fn = "idle"
    /\ arg \in RuleWorkflows
    /\ ret = PyNone
    /\ fs = <<>>
    /\ EngineIdle
    /\ cli = CliOff
    /\ threads = NoThreads

CallCheckUnpinnedActions ==
    /\ fn = "idle"
    /\ fn' = "check_unpinned_actions"
    /\ ret' = check_unpinned_actions(arg)
    /\ UNCHANGED <<arg, fs>>
    /\ UNCHANGED engineVars
    /\ UNCHANGED <<cli, threads>>

CallCheckPermissions ==
    /\ fn = "idle"
    /\ fn' = "check_permissions"
    /\ ret' = check_permissions(arg)
    /\ UNCHANGED <<arg, fs>>
    /\ UNCHANGED engineVars
    /\ UNCHANGED <<cli, threads>>

CallCheckScriptInjection ==
    /\ fn = "idle"
    /\ fn' = "check_script_injection"
    /\ ret' = check_script_injection(arg)
    /\ UNCHANGED <<arg, fs>>
    /\ UNCHANGED engineVars
    /\ UNCHANGED <<cli, threads>>

CallCheckDangerousTriggers ==
    /\ fn = "idle"
    /\ fn' = "check_dangerous_triggers"
    /\ ret' = check_dangerous_triggers(arg)
    /\ UNCHANGED <<arg, fs>>
    /\ UNCHANGED engineVars
    /\ UNCHANGED <<cli, threads>>

CallCheckSecretHandling ==
    /\ fn = "idle"
    /\ fn' = "check_secret_handling"
    /\ ret' = check_secret_handling(arg)
    /\ UNCHANGED <<arg, fs>>
    /\ UNCHANGED engineVars
    /\ UNCHANGED <<cli, threads>>

NextRules ==
    \/ CallCheckUnpinnedActions
    \/ CallCheckPermissions
    \/ CallCheckScriptInjection
    \/ CallCheckDangerousTriggers
    \/ CallCheckSecretHandling

SpecRules == InitRules /\ [][NextRules]_vars

----------------------------------------------------------------------------
(* Claims about the built-in checks.                                       *)

EmptyStr == PyStr(<<>>)

\* the findings of a returned list that carry the rule id
WithRuleId(result, id) == SelectSeq(result.items, LAMBDA f : f.rule_id = id)

\* the (job, step) pairs of a workflow, jobs in order and steps in order
StepsInOrder(wf) ==
    Flatten([j \in 1..Len(wf.jobs) |->
                [k \in 1..Len(wf.jobs[j].steps) |->
                    [job |-> wf.jobs[j], step |-> wf.jobs[j].steps[k]]]])

UnpinnedSteps(wf) ==
    SelectSeq(StepsInOrder(wf),
              LAMBDA p : p.step.uses.t = "ActionRef" /\ ~p.step.uses.is_pinned)

\* C11 as stated: check_unpinned_actions returns one HIGH 'unpinned-action'
\* finding per step with an unpinned reference, in job order then step order,
\* with the step's job id and the step's name or else the full reference,
\* and nothing for the other steps.
C11_OneFindingPerUnpinnedStep ==
    fn = "check_unpinned_actions" =>
        /\ ret.t = "list"
        /\ Len(ret.items) = Len(UnpinnedSteps(arg))
        /\ \A i \in 1..Len(ret.items) :
               /\ ret.items[i].rule_id = "unpinned-action"
               /\ ret.items[i].severity = "HIGH"
               /\ ret.items[i].job_id = UnpinnedSteps(arg)[i].job.job_id
               /\ ret.items[i].step_name =
                      IF UnpinnedSteps(arg)[i].step.name.t = "str"
                      THEN UnpinnedSteps(arg)[i].step.name
                      ELSE PyStr(UnpinnedSteps(arg)[i].step.uses.full_ref)

\* C12: check_permissions returns exactly one 'missing-permissions' finding,
\* MEDIUM with empty job_id and step_name, when the workflow's permissions
\* are None, and no such finding when a permission mapping is declared.
C12_MissingPermissionsIffNone ==
    fn = "check_permissions" =>
        /\ ret.t = "list"
        /\ arg.permissions.t = "None" =>
               /\ Len(WithRuleId(ret, "missing-permissions")) = 1
               /\ WithRuleId(ret, "missing-permissions")[1].severity = "MEDIUM"
               /\ WithRuleId(ret, "missing-permissions")[1].job_id = EmptyStr
               /\ WithRuleId(ret, "missing-permissions")[1].step_name = EmptyStr
        /\ arg.permissions.t # "None" => Len(WithRuleId(ret, "missing-permissions")) = 0

\* a workflow declaring permissions: {contents: read} was checked and got no
\* 'missing-permissions' finding
C12_Witness ==
    /\ fn = "check_permissions"
    /\ arg.permissions.t = "dict"
    /\ DictGet(arg.permissions, PyStr(s_contents), PyNone) = PyStr(s_read)
    /\ ~HasKey(arg.permissions, PyStr(s_all))
    /\ ret.t = "list"
    /\ Len(WithRuleId(ret, "missing-permissions")) = 0

WriteAllDict == PyDict(<<KV(PyStr(s_all), PyStr(s_write_all))>>)

\* the job ids a 'write-all-permissions' finding is due for: empty for the
\* workflow, then each job, whose permission field equals {"_all": "write-all"}
WriteAllFields(wf) ==
    (IF wf.permissions = WriteAllDict THEN <<EmptyStr>> ELSE <<>>)
    \o Flatten([j \in 1..Len(wf.jobs) |->
                   IF wf.jobs[j].permissions = WriteAllDict THEN <<wf.jobs[j].job_id>> ELSE <<>>])

\* C13 as stated: check_permissions returns a CRITICAL 'write-all-permissions'
\* finding for the workflow (empty job_id) and for each job (its job_id)
\* exactly when that permission field equals {"_all": "write-all"}.
C13_WriteAllIffEqual ==
    fn = "check_permissions" =>
        /\ ret.t = "list"
        /\ Len(WithRuleId(ret, "write-all-permissions")) = Len(WriteAllFields(arg))
        /\ \A i \in 1..Len(WriteAllFields(arg)) :
               /\ WithRuleId(ret, "write-all-permissions")[i].severity = "CRITICAL"
               /\ WithRuleId(ret, "write-all-permissions")[i].job_id = WriteAllFields(arg)[i]

\* the steps with an inline script
ScriptSteps(wf) == SelectSeq(StepsInOrder(wf), LAMBDA p : p.step.run.t = "str")

\* the ${{ ... }} expressions of a script whose trimmed inner text contains a
\* path of the dangerous-context list
MatchingExpressions(script) ==
    SelectSeq(findall_expression(script, 1),
              LAMBDA e : \E d \in 1..Len(DANGEROUS_CONTEXTS) :
                             IsSubstring(DANGEROUS_CONTEXTS[d], strip(e, {"$", "{", "}", " "})))

\* C14 as stated: check_script_injection returns one CRITICAL
\* 'script-injection' finding per matching expression per step (the number
\* of findings is the number of expressions containing a dangerous context)
\* and nothing else.
C14_OneFindingPerMatchingExpression ==
    (fn = "check_script_injection"
     /\ \A i \in 1..Len(StepsInOrder(arg)) : StepsInOrder(arg)[i].step.run.t \in {"None", "str"}) =>
        /\ ret.t = "list"
        /\ Len(ret.items) =
               SumLen([i \in 1..Len(ScriptSteps(arg)) |->
                          MatchingExpressions(ScriptSteps(arg)[i].step.run.s)])
        /\ \A i \in 1..Len(ret.items) :
               /\ ret.items[i].rule_id = "script-injection"
               /\ ret.items[i].severity = "CRITICAL"

\* the steps whose inline script holds a ${{ secrets.NAME }} expression
SecretSteps(wf) ==
    SelectSeq(ScriptSteps(wf), LAMBDA p : Len(findall_secret(p.step.run.s, 1)) > 0)

\* C15 as stated: check_secret_handling returns one HIGH 'secret-in-run'
\* finding per step whose inline script holds at least one secret
\* expression, listing all of them in the description, and nothing else.
C15_OneFindingPerSecretStep ==
    (fn = "check_secret_handling"
     /\ \A i \in 1..Len(StepsInOrder(arg)) : StepsInOrder(arg)[i].step.run.t \in {"None", "str"}) =>
        /\ ret.t = "list"
        /\ Len(ret.items) = Len(SecretSteps(arg))
        /\ \A i \in 1..Len(ret.items) :
               /\ ret.items[i].rule_id = "secret-in-run"
               /\ ret.items[i].severity = "HIGH"
               /\ ret.items[i].job_id = SecretSteps(arg)[i].job.job_id
               /\ Tail(ret.items[i].description) =
                      [x \in 1..Len(findall_secret(SecretSteps(arg)[i].step.run.s, 1)) |->
                          PyStr(findall_secret(SecretSteps(arg)[i].step.run.s, 1)[x])]

HasTrigger(wf, name) == \E i \in 1..Len(wf.triggers.items) : wf.triggers.items[i] = PyStr(name)

\* C16: check_dangerous_triggers returns one HIGH 'dangerous-trigger'
\* finding exactly when pull_request_target is among the triggers and one
\* LOW 'manual-trigger' finding exactly when workflow_dispatch is, each
\* independently of the other and of repetitions, nothing for other
\* triggers, and both findings with empty job_id and step_name.
C16_TriggerFindings ==
    fn = "check_dangerous_triggers" =>
        /\ ret.t = "list"
        /\ Len(WithRuleId(ret, "dangerous-trigger")) =
               IF HasTrigger(arg, s_pull_request_target) THEN 1 ELSE 0
        /\ Len(WithRuleId(ret, "manual-trigger")) =
               IF HasTrigger(arg, s_workflow_dispatch) THEN 1 ELSE 0
        /\ Len(ret.items) =
               Len(WithRuleId(ret, "dangerous-trigger")) + Len(WithRuleId(ret, "manual-trigger"))
        /\ \A i \in 1..Len(ret.items) :
               /\ ret.items[i].severity =
                      IF ret.items[i].rule_id = "dangerous-trigger" THEN "HIGH" ELSE "LOW"
               /\ ret.items[i].job_id = EmptyStr
               /\ ret.items[i].step_name = EmptyStr

\* triggers naming pull_request_target twice, workflow_dispatch and
\* pull_request were checked: one finding of each kind
C16_Witness ==
    /\ fn = "check_dangerous_triggers"
    /\ \E i, j \in 1..Len(arg.triggers.items) :
           /\ i < j
           /\ arg.triggers.items[i] = PyStr(s_pull_request_target)
           /\ arg.triggers.items[j] = PyStr(s_pull_request_target)
    /\ HasTrigger(arg, s_workflow_dispatch)
    /\ HasTrigger(arg, s_pull_request)
    /\ ret.t = "list"
    /\ Len(ret.items) = 2

StepLevelRuleIds == {"unpinned-action", "script-injection", "secret-in-run"}

\* C17 as stated: every finding has a line_number field; the step-level
\* checks build their findings, each with the line number of its step, and
\* the findings of the other checks have line_number None.
C17_FindingsCarryLineNumber ==
    (fn \in {"check_unpinned_actions", "check_permissions", "check_script_injection",
             "check_dangerous_triggers", "check_secret_handling"}
     /\ \A i \in 1..Len(StepsInOrder(arg)) : StepsInOrder(arg)[i].step.run.t \in {"None", "str"}) =>
        /\ ret.t = "list"
        /\ \A i \in 1..Len(ret.items) :
               /\ "line_number" \in DOMAIN ret.items[i]
               /\ IF ret.items[i].rule_id \in StepLevelRuleIds
                  THEN \E k \in 1..Len(StepsInOrder(arg)) :
                           ret.items[i].line_number = StepsInOrder(arg)[k].step.line_number
                  ELSE ret.items[i].line_number = PyNone

----------------------------------------------------------------------------
(* Claims about run_all_rules with the five built-in checks.               *)

NoPermissionsKey(wf) == ~HasKey(wf.raw, PyStr(s_permissions))

NoSteps(wf) == \A j \in 1..Len(wf.jobs) : Len(wf.jobs[j].steps) = 0

OnlyMissingPermissions(run) ==
    /\ Returned(run)
    /\ Len(run.outcome.items) = 1
    /\ run.outcome.items[1].rule_id = "missing-permissions"
    /\ run.outcome.items[1].severity = "MEDIUM"

\* C18 as stated: run_all_rules on a workflow without a permissions key and
\* without steps returns exactly one finding, 'missing-permissions', MEDIUM.
C18_NoPermissionsNoSteps ==
    \A r \in 1..Len(history) :
        (NoPermissionsKey(history[r].workflow) /\ NoSteps(history[r].workflow))
            => OnlyMissingPermissions(history[r])

\* C18, amended: the same for a workflow that in addition has neither
\* pull_request_target nor workflow_dispatch among its triggers and no job
\* whose permissions are write-all.
C18_NoPermissionsNoStepsNoTrigger ==
    \A r \in 1..Len(history) :
        (/\ NoPermissionsKey(history[r].workflow)
         /\ NoSteps(history[r].workflow)
         /\ ~HasTrigger(history[r].workflow, s_pull_request_target)
         /\ ~HasTrigger(history[r].workflow, s_workflow_dispatch)
         /\ \A j \in 1..Len(history[r].workflow.jobs) :
                ~(/\ history[r].workflow.jobs[j].permissions.t = "dict"
                  /\ DictGet(history[r].workflow.jobs[j].permissions, PyStr(s_all), PyNone)
                         = PyStr(s_write_all)))
            => OnlyMissingPermissions(history[r])

\* a workflow triggered by push, without permissions, with one job without
\* steps, was evaluated after another workflow and got the one finding
C18_Witness ==
    \E r \in 2..Len(history) :
        /\ NoPermissionsKey(history[r].workflow)
        /\ Len(history[r].workflow.jobs) = 1
        /\ NoSteps(history[r].workflow)
        /\ HasTrigger(history[r].workflow, s_push)
        /\ ~HasTrigger(history[r].workflow, s_pull_request_target)
        /\ OnlyMissingPermissions(history[r])

----------------------------------------------------------------------------
(* config.py: the configuration file.                                      *)

s_severity == <<"s","e","v","e","r","i","t","y">>
s_ignore_rules == <<"i","g","n","o","r","e","_","r","u","l","e","s">>
s_exclude == <<"e","x","c","l","u","d","e">>
s_low == <<"l","o","w">>
s_medium == <<"m","e","d","i","u","m">>
s_high == <<"h","i","g","h">>
s_critical == <<"c","r","i","t","i","c","a","l">>

DEFAULT_CONFIG_FILENAME == <<".","g","h","a","-","g","u","a","r","d",".","y","m","l">>

\* an Optional[str] path: None, or the parts of an absolute path
PyPath(p) == [t |-> "path", p |-> p]

\* Path.is_file()
is_file(fsys, p) == IF p \in DOMAIN fsys THEN fsys[p].kind = "file" ELSE FALSE

\* os.path.isdir
is_dir(fsys, p) == IF p \in DOMAIN fsys THEN fsys[p].kind = "dir" ELSE FALSE

\* Path.parents: the ancestors, nearest first
parents(p) == [i \in 1..Len(p) |-> SubSeq(p, 1, Len(p) - i)]

Config(severity, ignore_rules, exclude) ==
    [t |-> "Config", severity |-> severity, ignore_rules |-> ignore_rules, exclude |-> exclude]

\* Config(): the defaults of the dataclass
DefaultConfig == Config(PyStr(s_low), PyList(<<>>), PyList(<<>>))

\* step 2 of _find_config_file: the candidates next to the scan path and in
\* its ancestors, nearest first; none without a scan path
scan_candidates(fsys, scan_path) ==
    IF scan_path.t # "path" THEN <<>>
    ELSE LET scan_p == IF is_file(fsys, scan_path.p)
                       THEN SubSeq(scan_path.p, 1, Len(scan_path.p) - 1)
                       ELSE scan_path.p
         IN  <<Append(scan_p, DEFAULT_CONFIG_FILENAME)>>
             \o [i \in 1..Len(scan_p) |-> Append(parents(scan_p)[i], DEFAULT_CONFIG_FILENAME)]

\* the candidates in the reverse order
find_config_file_farthest_first(fsys, config_path, scan_path, cwd) ==
    IF config_path.t = "path"
    THEN IF is_file(fsys, config_path.p) THEN config_path ELSE PyNone
    ELSE LET candidates == scan_candidates(fsys, scan_path)
                           \o <<Append(cwd, DEFAULT_CONFIG_FILENAME)>>
             hits == SelectSeq(candidates, LAMBDA c : is_file(fsys, c))
         IN  IF Len(hits) > 0 THEN PyPath(hits[Len(hits)]) ELSE PyNone

\* _find_config_file: the path found, or None
_find_config_file(fsys, config_path, scan_path, cwd) ==
    IF config_path.t = "path"
    THEN IF is_file(fsys, config_path.p) THEN config_path ELSE PyNone
    ELSE LET candidates == scan_candidates(fsys, scan_path)
                           \o <<Append(cwd, DEFAULT_CONFIG_FILENAME)>>
             hits == SelectSeq(candidates, LAMBDA c : is_file(fsys, c))
         IN  IF Len(hits) > 0 THEN PyPath(hits[1]) ELSE PyNone

\* yaml.safe_load: the nodes as SafeLoader builds them
RECURSIVE safe_construct(_)
safe_construct(y) ==
    CASE y.t = "ymap" -> PyDict([i \in 1..Len(y.kv) |-> KV(y.kv[i].k, safe_construct(y.kv[i].v))])
      [] y.t = "yseq" -> PyList([i \in 1..Len(y.items) |-> safe_construct(y.items[i])])
      [] OTHER -> y

safe_load(content) ==
    IF content.t = "unparseable" THEN Raise("YAMLError") ELSE safe_construct(content)

\* load_config(config_path, scan_path)
load_config(fsys, config_path, scan_path, cwd) ==
    LET path == _find_config_file(fsys, config_path, scan_path, cwd)
    IN  IF path.t = "None" THEN DefaultConfig
        ELSE LET raw == safe_load(fsys[path.p].content)
             IN  IF raw.t = "raise" THEN raw
                 ELSE IF raw.t # "dict" THEN DefaultConfig
                 ELSE Config(DictGet(raw, PyStr(s_severity), PyStr(s_low)),
                             DictGet(raw, PyStr(s_ignore_rules), PyList(<<>>)),
                             DictGet(raw, PyStr(s_exclude), PyList(<<>>)))

----------------------------------------------------------------------------
(* cli.py: the scan command.                                               *)

EXIT_OK == 0
EXIT_FINDINGS == 1
EXIT_ERROR == 2

\* Severity(value): the member with that value, or ValueError
Severity(value) ==
    CASE value = PyStr(s_critical) -> [t |-> "Severity", name |-> "CRITICAL"]
      [] value = PyStr(s_high)     -> [t |-> "Severity", name |-> "HIGH"]
      [] value = PyStr(s_medium)   -> [t |-> "Severity", name |-> "MEDIUM"]
      [] value = PyStr(s_low)      -> [t |-> "Severity", name |-> "LOW"]
      [] OTHER                     -> Raise("ValueError")

\* the ranks the other way round
severity_order_reversed(sev) ==
    CASE sev = "LOW" -> 3 [] sev = "MEDIUM" -> 2 [] sev = "HIGH" -> 1 [] sev = "CRITICAL" -> 0

\* lines 72-77
severity_order(sev) ==
    CASE sev = "LOW" -> 0 [] sev = "MEDIUM" -> 1 [] sev = "HIGH" -> 2 [] sev = "CRITICAL" -> 3

\* the text of a rule id
rule_id_str(id) ==
    CASE id = "unpinned-action" -> <<"u","n","p","i","n","n","e","d","-","a","c","t","i","o","n">>
      [] id = "missing-permissions" -> <<"m","i","s","s","i","n","g","-","p","e","r","m","i","s","s","i","o","n","s">>
      [] id = "write-all-permissions" -> <<"w","r","i","t","e","-","a","l","l","-","p","e","r","m","i","s","s","i","o","n","s">>
      [] id = "script-injection" -> <<"s","c","r","i","p","t","-","i","n","j","e","c","t","i","o","n">>
      [] id = "dangerous-trigger" -> <<"d","a","n","g","e","r","o","u","s","-","t","r","i","g","g","e","r">>
      [] id = "manual-trigger" -> <<"m","a","n","u","a","l","-","t","r","i","g","g","e","r">>
      [] id = "secret-in-run" -> <<"s","e","c","r","e","t","-","i","n","-","r","u","n">>

\* fnmatch.fnmatch(name, pat) on POSIX, for patterns of literals, * and ?
RECURSIVE fnmatch(_, _)
fnmatch(name, pat) ==
    IF Len(pat) = 0 THEN Len(name) = 0
    ELSE IF pat[1] = "*"
    THEN fnmatch(name, Tail(pat)) \/ (Len(name) > 0 /\ fnmatch(Tail(name), pat))
    ELSE /\ Len(name) > 0
         /\ (pat[1] = "?" \/ pat[1] = name[1])
         /\ fnmatch(Tail(name), Tail(pat))

\* iter(v): the elements a for loop over v visits, or TypeError
PyIter(v) ==
    CASE v.t = "list" -> v
      [] v.t = "str"  -> PyList([i \in 1..Len(v.s) |-> PyStr(<<v.s[i]>>)])
      [] v.t = "dict" -> PyList(DictKeys(v))
      [] OTHER        -> Raise("TypeError")

\* any(fnmatch.fnmatch(file_path, pat) for pat in exclude): a bool, or the
\* TypeError of a pattern that is no str met before a match
any_fnmatch(file_path, pats) ==
    LET stops == {i \in 1..Len(pats) :
                     IF pats[i].t = "str" THEN fnmatch(file_path.s, pats[i].s) ELSE TRUE}
    IN  IF stops = {} THEN PyBool(FALSE)
        ELSE LET first == CHOOSE i \in stops : \A j \in stops : i <= j
             IN  IF pats[first].t = "str" THEN PyBool(TRUE) ELSE Raise("TypeError")

\* lines 107-112: the workflows left by config.exclude
exclude_workflows(workflows, exclude) ==
    IF ~Truthy(exclude) THEN PyList(workflows)
    ELSE IF PyIter(exclude).t = "raise" THEN PyIter(exclude)
    ELSE LET hit == [i \in 1..Len(workflows) |->
                        any_fnmatch(workflows[i].file_path, PyIter(exclude).items)]
         IN  IF FirstRaise(hit).t = "raise" THEN FirstRaise(hit)
             ELSE PyList(Flatten([i \in 1..Len(workflows) |->
                                     IF hit[i].b THEN <<>> ELSE <<workflows[i]>>]))

\* run_all_rules(workflow) as one call: the loop of lines 53-58 from rule i on
RECURSIVE run_rules_from(_, _, _, _)
run_rules_from(rules, wf, i, fnds) ==
    IF i > Len(rules) THEN PyList(fnds)
    ELSE LET extended == run_rule(fnds, apply_rule(rules[i], wf))
         IN  IF extended.t = "raise" THEN extended
             ELSE run_rules_from(rules, wf, i + 1, extended.items)

run_all_rules(rules, wf) == run_rules_from(rules, wf, 1, initial_findings(<<>>))

\* lines 122-125: all_findings over the workflows, or the first exception
scan_rules(rules, workflows) ==
    LET per == [i \in 1..Len(workflows) |-> run_all_rules(rules, workflows[i])]
    IN  IF FirstRaise(per).t = "raise" THEN FirstRaise(per)
        ELSE PyList(Flatten([i \in 1..Len(per) |-> per[i].items]))

\* no rule is ignored
filter_ignored_skipped(all_findings, ignore_rules) == PyList(all_findings)

\* lines 128-133: the findings left by config.ignore_rules
filter_ignored(all_findings, ignore_rules) ==
    IF ~Truthy(ignore_rules) THEN PyList(all_findings)
    ELSE LET ignored == [i \in 1..Len(all_findings) |->
                            PyIn(PyStr(rule_id_str(all_findings[i].rule_id)), ignore_rules)]
         IN  IF FirstRaise(ignored).t = "raise" THEN FirstRaise(ignored)
             ELSE PyList(Flatten([i \in 1..Len(all_findings) |->
                                     IF ignored[i].b THEN <<>> ELSE <<all_findings[i]>>]))

\* lines 139-142: the findings at or above the minimum severity
filter_severity(all_findings, min_sev) ==
    SelectSeq(all_findings,
              LAMBDA f : severity_order(f.severity) >= severity_order(min_sev))

\* report_json: reads line_number of every finding
report_json(fnds) ==
    IF \E i \in 1..Len(fnds) : "line_number" \notin DOMAIN fnds[i]
    THEN Raise("AttributeError")
    ELSE PyList(fnds)

\* report_console: prints every finding
report_console(fnds) == PyList(fnds)

\* the process ends: sys.exit(code), or an exception nothing catches, which
\* ends the interpreter with status 1 and a traceback
Exit(c, code, error, reported) ==
    [c EXCEPT !.pc = "exit", !.exit = PyInt(code), !.error = error, !.reported = reported]

Uncaught(c, exc) == Exit(c, 1, exc.exc, <<>>)

\* Path.cwd()
Cwd == <<>>

\* lines 79-84
ScanLoadConfig ==
    /\ cli.pc = "start"
    /\ LET config == load_config(fs, cli.args.config_path, PyPath(cli.args.path), Cwd)
       IN  IF config.t = "raise" THEN cli' = Uncaught(cli, config)
           ELSE LET effective_severity == PyOr(cli.args.min_severity, config.severity)
                    min_sev == Severity(effective_severity)
                IN  IF min_sev.t = "raise" THEN cli' = Uncaught(cli, min_sev)
                    ELSE cli' = [cli EXCEPT !.pc = "parse", !.config = config,
                                            !.min_sev = min_sev.name]
    /\ UNCHANGED <<parserVars, engineVars, threads>>

\* [wf]: the one-element list of a parsed workflow, or its exception
single_workflow(wf) == IF wf.t = "raise" THEN wf ELSE PyList(<<wf>>)

\* lines 87-94: the workflows parsed, or what is raised
scan_parse(fsys, path) ==
    IF is_file(fsys, path) THEN single_workflow(parse_workflow(fsys, path))
    ELSE IF is_dir(fsys, path) THEN parse_workflows_dir(fsys, path)
    ELSE Raise("not a file or directory")

\* lines 86-104
ScanParse ==
    /\ cli.pc = "parse"
    /\ \E workflows \in {scan_parse(fs, cli.args.path)} :
           IF workflows.t = "raise"
           THEN IF workflows.exc \in {"not a file or directory", "YAMLError", "ValueError",
                                      "FileNotFoundError"}
                THEN cli' = Exit(cli, EXIT_ERROR, workflows.exc, <<>>)
                ELSE cli' = Uncaught(cli, workflows)
           ELSE IF Len(workflows.items) = 0 THEN cli' = Exit(cli, EXIT_OK, "", <<>>)
           ELSE cli' = [cli EXCEPT !.pc = "exclude", !.workflows = workflows.items]
    /\ UNCHANGED <<parserVars, engineVars, threads>>

\* lines 106-119
ScanExclude ==
    /\ cli.pc = "exclude"
    /\ LET workflows == exclude_workflows(cli.workflows, cli.config.exclude)
       IN  IF workflows.t = "raise" THEN cli' = Uncaught(cli, workflows)
           ELSE IF Len(workflows.items) = 0 THEN cli' = Exit(cli, EXIT_OK, "", <<>>)
           ELSE cli' = [cli EXCEPT !.pc = "rules", !.workflows = workflows.items]
    /\ UNCHANGED <<parserVars, engineVars, threads>>

\* lines 121-125
ScanRunRules ==
    /\ cli.pc = "rules"
    /\ LET all_findings == scan_rules(_rules, cli.workflows)
       IN  IF all_findings.t = "raise" THEN cli' = Uncaught(cli, all_findings)
           ELSE cli' = [cli EXCEPT !.pc = "filter", !.all_findings = all_findings.items,
                                   !.returned = all_findings.items]
    /\ UNCHANGED <<parserVars, engineVars, threads>>

\* lines 127-146
ScanFilter ==
    /\ cli.pc = "filter"
    /\ LET kept == filter_ignored(cli.all_findings, cli.config.ignore_rules)
       IN  IF kept.t = "raise" THEN cli' = Uncaught(cli, kept)
           ELSE LET all_findings == filter_severity(kept.items, cli.min_sev)
                IN  IF Len(all_findings) = 0 THEN cli' = Exit(cli, EXIT_OK, "", <<>>)
                    ELSE cli' = [cli EXCEPT !.pc = "report", !.all_findings = all_findings]
    /\ UNCHANGED <<parserVars, engineVars, threads>>

\* lines 148-192; the answer of the Claude API is an input of the run
ScanReport ==
    /\ cli.pc = "report"
    /\ IF cli.args.enrich
       THEN IF ~cli.args.api_key
            THEN cli' = Exit(cli, EXIT_ERROR, "ANTHROPIC_API_KEY", <<>>)
            ELSE IF cli.args.api = "error"
            THEN cli' = Exit(cli, EXIT_FINDINGS, "", report_console(cli.all_findings).items)
            ELSE cli' = Exit(cli, EXIT_FINDINGS, "", cli.all_findings)
       ELSE LET output == IF cli.args.output_format = "json"
                          THEN report_json(cli.all_findings)
                          ELSE report_console(cli.all_findings)
            IN  IF output.t = "raise" THEN cli' = Uncaught(cli, output)
                ELSE cli' = Exit(cli, EXIT_FINDINGS, "", output.items)
    /\ UNCHANGED <<parserVars, engineVars, threads>>

NextScan ==
    \/ ScanLoadConfig
    \/ ScanParse
    \/ ScanExclude
    \/ ScanRunRules
    \/ ScanFilter
    \/ ScanReport

----------------------------------------------------------------------------
(* SpecScan: one run of the scan command.                                  *)

s_missing_permissions == rule_id_str("missing-permissions")
s_manual_trigger == rule_id_str("manual-trigger")
s_dangerous_trigger == rule_id_str("dangerous-trigger")
s_glob_a == <<"*","a",".","y","m","l">>
s_glob_all == <<"*">>
s_glob_yaml == <<"w","f","/","?",".","y","a","m","l">>

CleanDoc == YDoc("str", "read-all", [k |-> "map", jobs |-> <<OneJob(<<"pinned", "run">>, "absent")>>])
DocLevelDoc == YDoc("all", "absent", [k |-> "absent", jobs |-> <<>>])
WriteAllDoc == YDoc("str", "write-all", [k |-> "absent", jobs |-> <<>>])
UnpinnedDoc == YDoc("str", "read-all", [k |-> "map", jobs |-> <<OneJob(<<"unpinned">>, "absent")>>])

ConfigMap(key, value) == YMap(1, <<KV(PyStr(key), value)>>)

\* the contents of a configuration file
ConfigContents ==
    {Unparseable, PyStr(s_junk), PyNone}
    \cup {ConfigMap(s_severity, v) :
             v \in {PyStr(s_high), PyStr(s_critical), PyStr(s_junk), PyInt(5), PyNone}}
    \cup {ConfigMap(s_ignore_rules, v) :
             v \in {YSeq(<<PyStr(s_missing_permissions)>>),
                    YSeq(<<PyStr(s_manual_trigger), PyStr(s_dangerous_trigger),
                           PyStr(s_missing_permissions)>>),
                    PyStr(s_manual_trigger), PyInt(5), PyNone}}
    \cup {ConfigMap(s_exclude, v) :
             v \in {YSeq(<<PyStr(s_glob_a)>>), YSeq(<<PyStr(s_glob_all)>>),
                    YSeq(<<PyStr(s_glob_yaml)>>), YSeq(<<PyInt(5)>>), PyInt(5)}}
    \cup {YMap(1, <<KV(PyStr(s_severity), PyStr(s_medium)),
                    KV(PyStr(s_ignore_rules), YSeq(<<PyStr(s_missing_permissions)>>))>>)}

ExplicitConfigPath == <<n_c_txt>>
DefaultConfigPath == <<DEFAULT_CONFIG_FILENAME>>

\* the scanned directory wf with the files given, and the configuration files given
ScanFs(files, configs) ==
    [p \in {WfDir} \cup {<<n_wf, n>> : n \in DOMAIN files} \cup DOMAIN configs |->
        IF p = WfDir THEN Dir
        ELSE IF p \in DOMAIN configs THEN File(configs[p])
        ELSE File(files[p[2]])]

NoFiles == [n \in {} |-> PyNone]
NoConfigs == [p \in {} |-> PyNone]

ScanArgs(path, enrich, output_format, min_severity, config_path, api_key, api) ==
    [path |-> path, enrich |-> enrich, output_format |-> output_format,
     min_severity |-> min_severity, config_path |-> config_path,
     api_key |-> api_key, api |-> api]

\* runs that differ in the configuration
ConfigRuns ==
    {[fs |-> ScanFs([n \in {n_a_yml, n_b_yaml} |-> IF n = n_a_yml THEN DocLevelDoc ELSE WriteAllDoc],
                    [p \in ps |-> IF p = ExplicitConfigPath
                                  THEN ConfigMap(s_severity, PyStr(s_critical)) ELSE c]),
      args |-> ScanArgs(WfDir, FALSE, "console", sev, cp, FALSE, "ok")] :
        c \in ConfigContents,
        ps \in {{}, {DefaultConfigPath}, {DefaultConfigPath, ExplicitConfigPath}},
        sev \in {PyNone, PyStr(s_medium), PyStr(s_critical)},
        cp \in {PyNone, PyPath(ExplicitConfigPath)}}

\* runs that differ in the workflow files and the output format
WorkflowRuns ==
    {[fs |-> ScanFs([n \in ns |-> IF n = n_a_yml THEN a ELSE b], NoConfigs),
      args |-> ScanArgs(path, FALSE, fmt, sev, PyNone, FALSE, "ok")] :
        a \in {CleanDoc, DocLevelDoc, WriteAllDoc, UnpinnedDoc, SeqJobsDoc, PyStr(s_junk), Unparseable},
        b \in {CleanDoc, DocLevelDoc, WriteAllDoc},
        ns \in {{}, {n_a_yml}, {n_a_yml, n_b_yaml}},
        path \in {WfDir, <<n_wf, n_a_yml>>, <<n_B_yml>>},
        fmt \in {"console", "json"},
        sev \in {PyNone, PyStr(s_high)}}

\* runs with --enrich
EnrichRuns ==
    {[fs |-> ScanFs([n \in {n_a_yml} |-> a], NoConfigs),
      args |-> ScanArgs(WfDir, TRUE, fmt, PyNone, PyNone, api_key, api)] :
        a \in {CleanDoc, DocLevelDoc},
        fmt \in {"console", "json"},
        api_key \in BOOLEAN,
        api \in {"ok", "error"}}

ScanRuns == ConfigRuns \cup WorkflowRuns \cup EnrichRuns

InitScan ==
    /\ \E run \in ScanRuns :
           /\ fs = run.fs
           /\ cli = [pc |-> "start", args |-> run.args, config |-> DefaultConfig, min_sev |-> "LOW",
                     workflows |-> <<>>, all_findings |-> <<>>, returned |-> <<>>,
                     reported |-> <<>>, exit |-> PyNone, error |-> ""]
    /\ fn = "idle"
    /\ arg = PyNone
    /\ ret = PyNone
    /\ _rules = RuleModules
    /\ pc = "ready"
    /\ workflow = PyNone
    /\ idx = 0
    /\ findings = <<>>
    /\ calls = <<>>
    /\ history = <<>>
    /\ threads = NoThreads

SpecScan == InitScan /\ [][NextScan]_vars

----------------------------------------------------------------------------
(* Claims about the scan command.                                          *)

\* the total order the specification gives: LOW < MEDIUM < HIGH < CRITICAL
SeverityRank(sev) ==
    CASE sev = "LOW" -> 1 [] sev = "MEDIUM" -> 2 [] sev = "HIGH" -> 3 [] sev = "CRITICAL" -> 4

\* a is b with some elements left out
RECURSIVE IsSubSeq(_, _)
IsSubSeq(a, b) ==
    IF Len(a) = 0 THEN TRUE
    ELSE IF Len(b) = 0 THEN FALSE
    ELSE IF a[1] = b[1] THEN IsSubSeq(Tail(a), Tail(b))
    ELSE IsSubSeq(a, Tail(b))

\* C19: the severity filter of the scan keeps, in order, exactly the
\* findings whose severity is at least the threshold in the order
\* LOW < MEDIUM < HIGH < CRITICAL; for thresholds t1 <= t2 what is kept at
\* t2 is a sub-list of what is kept at t1, and LOW keeps everything.
C19_SeverityFilterMonotone ==
    cli.pc # "off" =>
        /\ \A t \in Severities :
               filter_severity(cli.returned, t) =
                   SelectSeq(cli.returned, LAMBDA f : SeverityRank(f.severity) >= SeverityRank(t))
        /\ \A t1, t2 \in Severities :
               SeverityRank(t1) <= SeverityRank(t2) =>
                   IsSubSeq(filter_severity(cli.returned, t2), filter_severity(cli.returned, t1))
        /\ IsSubSeq(filter_severity(cli.returned, "CRITICAL"), filter_severity(cli.returned, "HIGH"))
        /\ filter_severity(cli.returned, "LOW") = cli.returned

\* a scan with threshold high whose checks returned findings of all four
\* severities reported the HIGH and the CRITICAL one
C19_Witness ==
    /\ cli.pc = "exit"
    /\ cli.min_sev = "HIGH"
    /\ {cli.returned[i].severity : i \in 1..Len(cli.returned)} = Severities
    /\ Len(cli.reported) = 2
    /\ cli.reported = filter_severity(cli.returned, "HIGH")
    /\ Len(filter_severity(cli.returned, "CRITICAL")) = 1

\* C20 as stated: the scan command ends with exit code 0 when it reports no
\* finding, 1 when it reports at least one finding and 2 on every error.
C20_ExitCodes ==
    cli.pc = "exit" =>
        /\ cli.exit \in {PyInt(EXIT_OK), PyInt(EXIT_FINDINGS), PyInt(EXIT_ERROR)}
        /\ cli.error # "" => cli.exit = PyInt(EXIT_ERROR)
        /\ (cli.error = "" /\ Len(cli.reported) = 0) => cli.exit = PyInt(EXIT_OK)
        /\ (cli.error = "" /\ Len(cli.reported) > 0) => cli.exit = PyInt(EXIT_FINDINGS)

\* a list of str, the type Config declares for ignore_rules and exclude
IsStrList(v) == v.t = "list" /\ \A i \in 1..Len(v.items) : v.items[i].t = "str"

\* the workflows of the scanned path that no exclude pattern matches
NonExcluded ==
    SelectSeq(scan_parse(fs, cli.args.path).items,
              LAMBDA wf : \A i \in 1..Len(cli.config.exclude.items) :
                              ~fnmatch(wf.file_path.s, cli.config.exclude.items[i].s))

\* what every registered check returns for every workflow, workflow by
\* workflow and check by check
Evaluated(wfs) ==
    Flatten([w \in 1..Len(wfs) |->
                Flatten([r \in 1..Len(_rules) |-> apply_rule(_rules[r], wfs[w]).items])])

\* the --severity flag when given, the severity of the configuration otherwise
EffectiveThreshold ==
    IF cli.args.min_severity # PyNone
    THEN Severity(cli.args.min_severity).name
    ELSE Severity(cli.config.severity).name

\* a scan that got as far as its report, or ended without an error
ScanFiltered == cli.pc = "report" \/ (cli.pc = "exit" /\ cli.error = "")

\* the findings the scan hands to its reporter
ScanFindings == IF cli.pc = "report" THEN cli.all_findings ELSE cli.reported

\* C21: the findings the scan reports are the findings run_all_rules
\* returned for the non-excluded workflows, in evaluation order, whose rule
\* id is not in ignore_rules and whose severity is at least the effective
\* threshold (the --severity flag when given, else the configured severity);
\* what run_all_rules returned is everything the checks returned.
C21_ReportedAreFilteredEvaluated ==
    (/\ ScanFiltered
     /\ Len(cli.returned) > 0
     /\ IsStrList(cli.config.ignore_rules)
     /\ IsStrList(cli.config.exclude)) =>
        /\ cli.returned = Evaluated(NonExcluded)
        /\ ScanFindings =
               SelectSeq(cli.returned,
                         LAMBDA f :
                             /\ \A i \in 1..Len(cli.config.ignore_rules.items) :
                                    cli.config.ignore_rules.items[i].s # rule_id_str(f.rule_id)
                             /\ SeverityRank(f.severity) >= SeverityRank(EffectiveThreshold))

\* a scan without --severity whose configuration sets severity medium and
\* ignores missing-permissions reported some findings, after each filter
\* had removed one
C21_Witness ==
    /\ cli.pc = "exit"
    /\ cli.error = ""
    /\ cli.args.min_severity = PyNone
    /\ cli.config.severity = PyStr(s_medium)
    /\ cli.config.ignore_rules = PyList(<<PyStr(s_missing_permissions)>>)
    /\ Len(cli.reported) > 0
    /\ \E i \in 1..Len(cli.returned) : cli.returned[i].rule_id = "missing-permissions"
    /\ \E i \in 1..Len(cli.returned) : cli.returned[i].severity = "LOW"
    /\ \A i \in 1..Len(cli.reported) :
           cli.reported[i].rule_id # "missing-permissions" /\ cli.reported[i].severity # "LOW"

----------------------------------------------------------------------------
(* SpecConfig: load_config applied over one file system.                   *)

n_sub == <<"s","u","b">>
n_cwd == <<"c","w","d">>

ScanDir == <<n_wf, n_sub>>
ScanFile == <<n_wf, n_sub, n_a_yml>>
OtherDir == <<n_cwd>>

\* where a configuration file may lie: next to the scanned files, in the two
\* ancestors, in another directory, and at a path of its own
ConfigPlaces ==
    {Append(ScanDir, DEFAULT_CONFIG_FILENAME), Append(WfDir, DEFAULT_CONFIG_FILENAME),
     DefaultConfigPath, Append(OtherDir, DEFAULT_CONFIG_FILENAME), ExplicitConfigPath}

\* a configuration that names the place it lies at
ConfigAt(place) ==
    YMap(1, <<KV(PyStr(s_severity), PyStr(s_high)),
              KV(PyStr(s_exclude), YSeq([i \in 1..Len(place) |-> PyStr(place[i])]))>>)

\* what a configuration file holds: a mapping, a string, nothing
ConfigKinds == {"mapping", "str", "empty"}

ConfigOfKind(kind, place) ==
    CASE kind = "mapping" -> ConfigAt(place)
      [] kind = "str"     -> PyStr(s_junk)
      [] kind = "empty"   -> PyNone

ConfigFs(places, kinds) ==
    [p \in {ScanDir, ScanFile} \cup places |->
        IF p = ScanDir THEN Dir
        ELSE IF p = ScanFile THEN File(CleanDoc)
        ELSE File(ConfigOfKind(kinds[p], p))]

LoadConfigArgs ==
    [config_path : {PyNone, PyPath(ExplicitConfigPath)},
     scan_path : {PyNone, PyPath(ScanDir), PyPath(ScanFile), PyPath(Append(ScanDir, n_b_yaml))},
     cwd : {OtherDir, ScanDir}]

InitConfig ==
    /\ fn = "idle"
    /\ arg \in LoadConfigArgs
    /\ ret = PyNone
    /\ \E places \in SUBSET ConfigPlaces :
           \E kinds \in [places -> ConfigKinds] : fs = ConfigFs(places, kinds)
    /\ EngineIdle
    /\ cli = CliOff
    /\ threads = NoThreads

CallLoadConfig ==
    /\ fn = "idle"
    /\ fn' = "load_config"
    /\ ret' = load_config(fs, arg.config_path, arg.scan_path, arg.cwd)
    /\ UNCHANGED <<arg, fs>>
    /\ UNCHANGED engineVars
    /\ UNCHANGED <<cli, threads>>

NextConfig == CallLoadConfig

SpecConfig == InitConfig /\ [][NextConfig]_vars

----------------------------------------------------------------------------
(* Claims about load_config.                                               *)

RECURSIVE FirstFile(_, _)
\* the first of the places that is a file of the file system, or None
FirstFile(fsys, places) ==
    IF Len(places) = 0 THEN PyNone
    ELSE IF places[1] \in DOMAIN fsys /\ fsys[places[1]].kind = "file" THEN PyPath(places[1])
    ELSE FirstFile(fsys, Tail(places))

\* the directory the search starts in: the scan path, its parent when it is a file
SearchDir(fsys, scan_path) ==
    IF scan_path \in DOMAIN fsys /\ fsys[scan_path].kind = "file"
    THEN SubSeq(scan_path, 1, Len(scan_path) - 1)
    ELSE scan_path

\* the places of the stated order: the search directory, its ancestors from
\* the nearest to the farthest, the current working directory
StatedPlaces(fsys, scan_path, cwd) ==
    (IF scan_path = PyNone THEN <<>>
     ELSE LET d == SearchDir(fsys, scan_path.p)
          IN  [i \in 1..(Len(d) + 1) |->
                  Append(SubSeq(d, 1, Len(d) + 1 - i), DEFAULT_CONFIG_FILENAME)])
    \o <<Append(cwd, DEFAULT_CONFIG_FILENAME)>>

\* the file the stated order resolves to, or None
StatedFile(fsys, a) ==
    IF a.config_path # PyNone
    THEN FirstFile(fsys, <<a.config_path.p>>)
    ELSE FirstFile(fsys, StatedPlaces(fsys, a.scan_path, a.cwd))

\* the configuration a file at the place holds, the defaults when its root
\* is not a mapping
StatedConfig(fsys, place) ==
    IF fsys[place].content.t = "ymap"
    THEN Config(PyStr(s_high), PyList(<<>>), PyList([i \in 1..Len(place) |-> PyStr(place[i])]))
    ELSE DefaultConfig

\* C22: load_config uses the first hit of: the explicit config_path when
\* given (the defaults when it is not a file, nothing else tried); the
\* scan directory (the parent of a scanned file), then its ancestors from the
\* nearest; the current working directory. With no file, or a file whose
\* root is not a mapping, it returns severity low and empty lists.
C22_ConfigResolutionOrder ==
    fn = "load_config" =>
        /\ StatedFile(fs, arg) = PyNone =>
               ret = Config(PyStr(s_low), PyList(<<>>), PyList(<<>>))
        /\ StatedFile(fs, arg) # PyNone =>
               ret = StatedConfig(fs, StatedFile(fs, arg).p)
        /\ (StatedFile(fs, arg) # PyNone /\ fs[StatedFile(fs, arg).p].content.t # "ymap") =>
               ret = Config(PyStr(s_low), PyList(<<>>), PyList(<<>>))

\* load_config took the file of the parent of the scan directory although
\* files lie in the root and in the working directory too, and none lies in
\* the scan directory
C22_Witness ==
    /\ fn = "load_config"
    /\ arg.config_path = PyNone
    /\ arg.scan_path = PyPath(ScanFile)
    /\ arg.cwd = OtherDir
    /\ Append(ScanDir, DEFAULT_CONFIG_FILENAME) \notin DOMAIN fs
    /\ {Append(WfDir, DEFAULT_CONFIG_FILENAME), DefaultConfigPath,
        Append(OtherDir, DEFAULT_CONFIG_FILENAME)} \subseteq DOMAIN fs
    /\ ret.exclude = PyList(<<PyStr(n_wf), PyStr(DEFAULT_CONFIG_FILENAME)>>)

----------------------------------------------------------------------------
(* reporter/sarif_reporter.py                                              *)

\* _SARIF_LEVEL
_SARIF_LEVEL(sev) ==
    CASE sev = "CRITICAL" -> "error" [] sev = "HIGH" -> "error"
      [] sev = "MEDIUM" -> "warning" [] sev = "LOW" -> "note"

\* _build_logical_locations(f)
_build_logical_locations(f) ==
    (IF Truthy(f.job_id) THEN <<[name |-> f.job_id, kind |-> "job"]>> ELSE <<>>)
    \o (IF Truthy(f.step_name) THEN <<[name |-> f.step_name, kind |-> "step"]>> ELSE <<>>)

\* the region of a result: line 80, the start of the file
build_region(f) == [startLine |-> PyInt(1)]

\* _build_result(f)
_build_result(f) ==
    [ruleId |-> f.rule_id,
     level |-> _SARIF_LEVEL(f.severity),
     message |-> f.description,
     uri |-> f.file_path,
     region |-> build_region(f),
     logicalLocations |-> _build_logical_locations(f)]

\* _build_rules(findings): the ids in the order they are first seen
_build_rules(fnds) ==
    Flatten([i \in 1..Len(fnds) |->
                IF \E j \in 1..(i - 1) : fnds[j].rule_id = fnds[i].rule_id
                THEN <<>> ELSE <<fnds[i].rule_id>>])

\* report_sarif(findings): the run of the document
report_sarif(fnds) ==
    [t |-> "sarif",
     rules |-> _build_rules(fnds),
     results |-> [i \in 1..Len(fnds) |-> _build_result(fnds[i])]]

----------------------------------------------------------------------------
(* SpecSarif: findings are built and handed to report_sarif.               *)

MaxFindings == 2

s_ci_yml == <<"c","i",".","y","m","l">>

\* the keyword arguments of one Finding(...): a workflow-level or a
\* step-level finding, with line_number left out, None or a line
FindingKwargs ==
    {(IF line.t = "absent" THEN <<>> ELSE [x \in {"line_number"} |-> line]) @@
     [rule_id |-> IF step THEN "unpinned-action" ELSE "missing-permissions",
      severity |-> sev,
      title |-> Template("title", <<>>),
      description |-> Template("description", <<>>),
      file_path |-> PyStr(s_ci_yml),
      job_id |-> IF step THEN PyStr(s_build) ELSE PyStr(<<>>),
      step_name |-> IF step THEN PyStr(s_co) ELSE PyStr(<<>>)] :
        sev \in Severities, step \in BOOLEAN, line \in {[t |-> "absent"], PyNone, PyInt(42)}}

InitSarif ==
    /\ fn = "idle"
    /\ arg \in SeqsUpTo(FindingKwargs, MaxFindings)
    /\ ret = PyNone
    /\ fs = <<>>
    /\ EngineIdle
    /\ cli = CliOff
    /\ threads = NoThreads

\* report_sarif([Finding(**kw), ...])
CallReportSarif ==
    /\ fn = "idle"
    /\ fn' = "report_sarif"
    /\ \E made \in {[i \in 1..Len(arg) |-> Finding(arg[i])]} :
           ret' = IF FirstRaise(made).t = "raise" THEN FirstRaise(made) ELSE report_sarif(made)
    /\ UNCHANGED <<arg, fs>>
    /\ UNCHANGED engineVars
    /\ UNCHANGED <<cli, threads>>

NextSarif == CallReportSarif

SpecSarif == InitSarif /\ [][NextSarif]_vars

\* C23 as stated: each SARIF result's startLine is the finding's line_number
\* when the finding has one, and 1 when its line_number is None.
C23_StartLineIsLineNumber ==
    (fn = "report_sarif" /\ Len(arg) > 0) =>
        /\ ret.t = "sarif"
        /\ \A i \in 1..Len(arg) :
               ret.results[i].region.startLine =
                   IF "line_number" \in DOMAIN arg[i] /\ arg[i].line_number # PyNone
                   THEN arg[i].line_number ELSE PyInt(1)

----------------------------------------------------------------------------
(* Claims about the line-tracking key, under SpecParse.                    *)

\* the mapping holds the loader's key
HasLineKey(v) == v.t = "dict" /\ HasKey(v, PyStr(s_line))

\* the 'on' field of the parsed file
OnField(raw) == DictGet(raw, PyStr(s_on), DictGet(raw, PyBool(TRUE), PyList(<<>>)))

\* the permissions and the env mappings of a workflow, its jobs and their steps
UserMappings(wf) ==
    {wf.permissions, wf.env}
    \cup UNION {{wf.jobs[j].permissions, wf.jobs[j].env} : j \in 1..Len(wf.jobs)}
    \cup UNION {{wf.jobs[j].steps[k].env : k \in 1..Len(wf.jobs[j].steps)} : j \in 1..Len(wf.jobs)}

\* C24 as stated: in every Document of parse_workflow no trigger name (when
\* 'on' is a mapping), no permission-scope name and no environment-variable
\* name is '__line__'.
C24_NoLineKeyInUserData ==
    ParsedWorkflow =>
        /\ OnField(ret.raw).t = "dict" =>
               \A i \in 1..Len(ret.triggers.items) : ret.triggers.items[i] # PyStr(s_line)
        /\ \A v \in UserMappings(ret) : ~HasLineKey(v)

\* the keys the file declares under 'jobs', in the order of the file
DeclaredJobKeys(content) ==
    IF HasKey(content, PyStr(s_jobs))
    THEN DictKeys(DictGet(content, PyStr(s_jobs), PyNone))
    ELSE <<>>

\* C25: in every Document of parse_workflow the jobs are one Job per key the
\* file declares under 'jobs', in declaration order, and no Job has the job
\* id '__line__'.
C25_OneJobPerDeclaredKey ==
    ParsedWorkflow =>
        /\ [j \in 1..Len(ret.jobs) |-> ret.jobs[j].job_id] = DeclaredJobKeys(ContentOf(arg))
        /\ \A j \in 1..Len(ret.jobs) : ret.jobs[j].job_id # PyStr(s_line)

\* a file with two jobs was parsed, and the jobs mapping the loader built
\* for it holds the line-tracking key
C25_Witness ==
    /\ ParsedWorkflow
    /\ Len(ret.jobs) = 2
    /\ ret.jobs[1].job_id = PyStr(s_build)
    /\ ret.jobs[2].job_id = PyStr(s_test)
    /\ HasLineKey(DictGet(ret.raw, PyStr(s_jobs), PyNone))

----------------------------------------------------------------------------
(* SpecJob: _parse_job applied to one value of a job key.                  *)

InitJob ==
    /\ fn = "idle"
    /\ arg \in {[job_id |-> PyStr(s_build), job_raw |-> construct(YJob(jo, 20))] : jo \in JobOpts}
    /\ ret = PyNone
    /\ fs = <<>>
    /\ EngineIdle
    /\ cli = CliOff
    /\ threads = NoThreads

CallParseJob ==
    /\ fn = "idle"
    /\ fn' = "_parse_job"
    /\ ret' = _parse_job(arg.job_id, arg.job_raw)
    /\ UNCHANGED <<arg, fs>>
    /\ UNCHANGED engineVars
    /\ UNCHANGED <<cli, threads>>

NextJob == CallParseJob

SpecJob == InitJob /\ [][NextJob]_vars

\* _parse_job was given a mapping whose 'steps' is a list
ParsedJobWithStepsList ==
    /\ fn = "_parse_job"
    /\ arg.job_raw.t = "dict"
    /\ DictGet(arg.job_raw, PyStr(s_steps), PyNone).t = "list"

\* the elements of the 'steps' list that are mappings, in their order
MappingElements(job_raw) ==
    SelectSeq(DictGet(job_raw, PyStr(s_steps), PyNone).items, LAMBDA e : e.t = "dict")

\* C26: _parse_job drops every element of 'steps' that is no mapping and
\* keeps the mapping elements in their order: the Steps are the mapping
\* elements parsed one by one, and the job fails only when a mapping
\* element itself cannot be parsed.
C26_NonMappingStepsDiscarded ==
    ParsedJobWithStepsList =>
        LET kept == MappingElements(arg.job_raw)
            parsed == [i \in 1..Len(kept) |-> _parse_step(kept[i])]
        IN  IF \A i \in 1..Len(kept) : parsed[i].t = "Step"
            THEN /\ ret.t = "Job"
                 /\ Len(ret.steps) = Len(kept)
                 /\ ret.steps = parsed
                 /\ \A i \in 1..Len(kept) : ret.steps[i].raw = kept[i]
            ELSE ret.t = "raise"

\* a 'steps' list of a string and a mapping gave a Job with the one Step
C26_Witness ==
    /\ ParsedJobWithStepsList
    /\ Len(DictGet(arg.job_raw, PyStr(s_steps), PyNone).items) = 2
    /\ DictGet(arg.job_raw, PyStr(s_steps), PyNone).items[1] = PyStr(s_junk)
    /\ ret.t = "Job"
    /\ Len(ret.steps) = 1
    /\ ret.steps[1].raw = DictGet(arg.job_raw, PyStr(s_steps), PyNone).items[2]

----------------------------------------------------------------------------
(* Claims about the parts of an ActionRef, under SpecRef.                  *)

\* the text before the last "@" of a string that holds one
TextBeforeLastAt(s) ==
    LET k == CHOOSE i \in 1..Len(s) : s[i] = "@" /\ \A j \in (i + 1)..Len(s) : s[j] # "@"
    IN  [i \in 1..(k - 1) |-> s[i]]

\* the positions of "/" in a text, and the end of the text
SegmentEnds(s) == {i \in 1..Len(s) : s[i] = "/"} \cup {Len(s) + 1}

\* the n-th smallest element of a set of numbers
NthLeast(S, n) == CHOOSE x \in S : Cardinality({y \in S : y < x}) = n - 1

\* the first and the second "/"-separated segment of a text with a "/"
FirstSegment(s) == SubSeq(s, 1, NthLeast(SegmentEnds(s), 1) - 1)
SecondSegment(s) == SubSeq(s, NthLeast(SegmentEnds(s), 1) + 1, NthLeast(SegmentEnds(s), 2) - 1)

\* C27: an ActionRef returned by _parse_action_ref has ref = the text after
\* the last "@", owner and repo = the first and the second "/"-separated
\* segment of the text before it (further segments are ignored), and
\* full_ref = the text given.
C27_ActionRefParts ==
    RefReturned =>
        /\ ret.ref = TextAfterLastAt(arg.s)
        /\ ret.owner = FirstSegment(TextBeforeLastAt(arg.s))
        /\ ret.repo = SecondSegment(TextBeforeLastAt(arg.s))
        /\ ret.full_ref = arg.s

\* a reference with two "@" was split at the last one
C27_Witness ==
    /\ RefReturned
    /\ arg.s = <<"a","/","b","@","x","@","v","3">>
    /\ ret.owner = <<"a">>
    /\ ret.repo = <<"b","@","x">>
    /\ ret.ref = <<"v","3">>

----------------------------------------------------------------------------
(* Claims about what an evaluation leaves alone, under Spec.               *)

----------------------------------------------------------------------------
(* SpecConc: run_all_rules called concurrently on independent documents,   *)
(* after every rule module has been imported.  A call's workflow, loop    *)
(* position and findings list are locals of the call; _rules is the one   *)
(* object the calls share.  The calls interleave between the statements   *)
(* of the loop.                                                            *)

MaxThreads == 2

Threads == 1..MaxThreads

\* the documents of the concurrent calls
ConcWorkflows ==
    {parse_workflow(ScanFs([n \in {n_a_yml} |-> d], NoConfigs), <<n_wf, n_a_yml>>) :
        d \in {CleanDoc, DocLevelDoc, WriteAllDoc, UnpinnedDoc}}

ThreadIdle == [pc |-> "ready", workflow |-> PyNone, idx |-> 0, findings |-> <<>>, outcome |-> PyNone]

\* one list object for every call
shared_findings(ths, t) == ths[1].findings

\* the list bound to the local name findings of call t (line 53)
own_findings(ths, t) == ths[t].findings

InitConc ==
    /\ fn = "idle"
    /\ arg = PyNone
    /\ ret = PyNone
    /\ fs = <<>>
    /\ _rules = RuleModules
    /\ pc = "ready"
    /\ workflow = PyNone
    /\ idx = 0
    /\ findings = <<>>
    /\ calls = <<>>
    /\ history = <<>>
    /\ cli = CliOff
    /\ threads = [t \in Threads |-> ThreadIdle]

\* lines 49-53 in call t
ThreadStart(t) ==
    /\ threads[t].pc = "ready"
    /\ \E wf \in ConcWorkflows :
           threads' = [threads EXCEPT ![t] = [pc |-> "loop", workflow |-> wf, idx |-> 1,
                                              findings |-> initial_findings(threads[t].findings),
                                              outcome |-> PyNone]]
    /\ UNCHANGED <<parserVars, engineVars, cli>>

\* lines 54-58 in call t: one iteration of the loop over the shared _rules
ThreadRule(t) ==
    /\ threads[t].pc = "loop"
    /\ threads[t].idx <= Len(_rules)
    /\ \E extended \in {run_rule(own_findings(threads, t),
                                 apply_rule(_rules[threads[t].idx], threads[t].workflow))} :
           IF extended.t = "raise"
           THEN threads' = [threads EXCEPT ![t].pc = "done", ![t].outcome = extended]
           ELSE threads' = [threads EXCEPT ![t].findings = extended.items,
                                           ![t].idx = threads[t].idx + 1,
                                           ![t].workflow =
                                               document_after(_rules[threads[t].idx],
                                                              threads[t].workflow)]
    /\ UNCHANGED <<parserVars, engineVars, cli>>

\* line 68 in call t
ThreadReturn(t) ==
    /\ threads[t].pc = "loop"
    /\ threads[t].idx > Len(_rules)
    /\ threads' = [threads EXCEPT ![t].pc = "done", ![t].outcome = PyList(threads[t].findings)]
    /\ UNCHANGED <<parserVars, engineVars, cli>>

NextConc == \E t \in Threads : ThreadStart(t) \/ ThreadRule(t) \/ ThreadReturn(t)

SpecConc == InitConc /\ [][NextConc]_vars

\* what the registered checks give for a document evaluated alone: the
\* first exception, or their outputs one after the other
EvaluatedAlone(wf) ==
    LET outs == [r \in 1..Len(RuleModules) |-> apply_rule(RuleModules[r], wf)]
    IN  IF \E r \in 1..Len(outs) : outs[r].t = "raise"
        THEN outs[CHOOSE r \in 1..Len(outs) :
                      outs[r].t = "raise" /\ \A q \in 1..(r - 1) : outs[q].t # "raise"]
        ELSE PyList(Flatten([r \in 1..Len(outs) |-> outs[r].items]))

\* C29: with registration complete, every interleaving of concurrent
\* run_all_rules calls on independent documents gives each document the
\* finding list of its evaluation alone, and leaves the registry as it was.
C29_InterleavingIndependent ==
    /\ _rules = RuleModules
    /\ \A t \in Threads :
           threads[t].pc = "done" => threads[t].outcome = EvaluatedAlone(threads[t].workflow)

\* two calls were both inside their loops, each with findings of its own,
\* and ended with different finding lists
C29_Witness ==
    /\ \A t \in Threads : threads[t].pc = "done" /\ threads[t].outcome.t = "list"
    /\ Len(threads[1].outcome.items) > 1
    /\ Len(threads[2].outcome.items) > 0
    /\ threads[1].outcome # threads[2].outcome

----------------------------------------------------------------------------
(* Claims about where a finding points, under Spec.                        *)

DocumentLevelRuleIds == {"missing-permissions", "dangerous-trigger", "manual-trigger"}

\* the finding names a place of the workflow
LocatedIn(f, wf) ==
    /\ f.file_path = wf.file_path
    /\ \/ f.job_id = PyStr(<<>>)
       \/ \E j \in 1..Len(wf.jobs) : f.job_id = wf.jobs[j].job_id
    /\ f.rule_id \in DocumentLevelRuleIds =>
           f.job_id = PyStr(<<>>) /\ f.step_name = PyStr(<<>>)
    /\ (f.rule_id = "write-all-permissions" /\ f.job_id = PyStr(<<>>)) =>
           f.step_name = PyStr(<<>>)
    /\ f.rule_id \in StepLevelRuleIds =>
           /\ f.job_id.t = "str" /\ Len(f.job_id.s) > 0
           /\ f.step_name.t = "str" /\ Len(f.step_name.s) > 0

====
